---- MODULE Spec2Model ----
(***************************************************************************)
(* A model of redis-rust: the RESP codec (server/serde.rs), the connection *)
(* handler (server/handler.rs), the keyspace commands (server/commands.rs),*)
(* the snapshot loader (server/server.rs) and the per-connection task      *)
(* (main.rs).                                                              *)
(*                                                                         *)
(* Bytes are their integer codes.  Buffer positions are 0-based as in the  *)
(* source; At(buf, i) reads the byte at position i.                        *)
(***************************************************************************)
EXTENDS Integers, Sequences, FiniteSets, TLC

(***************************************************************************)
(* Bytes that the source names.                                            *)
(***************************************************************************)
Plus == 43
Dollar == 36
Star == 42
Minus == 45
CR == 13
LF == 10
Zero == 48
Nine == 57

CRLF == <<CR, LF>>

At(buf, i) == buf[i + 1]

\* buf[from..to) of the source (half-open, 0-based)
Slice(buf, from, to) == SubSeq(buf, from + 1, to)

Min(S) == CHOOSE x \in S : \A y \in S : x <= y

(***************************************************************************)
(* RedisValue (handler.rs) and the raw tokens (serde.rs).                  *)
(***************************************************************************)
SimpleString(b) == [t |-> "SimpleString", b |-> b]
BulkString(b) == [t |-> "BulkString", b |-> b]
SimpleError(b) == [t |-> "SimpleError", b |-> b]
NullBulkString == [t |-> "NullBulkString"]
Array(a) == [t |-> "Array", a |-> a]

Tok(from, to) == [from |-> from, to |-> to]
RawSimpleString(tok) == [t |-> "SimpleString", tok |-> tok]
RawBulkString(tok) == [t |-> "BulkString", tok |-> tok]
RawNullBulkString(pos) == [t |-> "NullBulkString", pos |-> pos]
RawArray(items) == [t |-> "Array", items |-> items]

\* Result<Option<RESPToken>>: Ok(None), Ok(Some(RESPToken(raw, next))), Err
OkNone == [kind |-> "none"]
OkSome(raw, next) == [kind |-> "some", raw |-> raw, next |-> next]
Err == [kind |-> "err"]

(***************************************************************************)
(* Decimal text of integers: format!("{}", n) and str::parse::<i32>.       *)
(***************************************************************************)
RECURSIVE ToDecimal(_)
ToDecimal(n) ==
    IF n < 10 THEN <<Zero + n>> ELSE ToDecimal(n \div 10) \o <<Zero + (n % 10)>>

IsDigit(b) == b >= Zero /\ b <= Nine

I32Max == 2147483647

\* The digits accumulated as a negative number, the way the checked
\* arithmetic of from_str does; Overflow when the value leaves the range.
Overflow == 1

RECURSIVE NegDigits(_)
NegDigits(s) ==
    IF s = <<>> THEN 0
    ELSE LET acc == NegDigits(SubSeq(s, 1, Len(s) - 1))
             d == s[Len(s)] - Zero
         IN  IF acc = Overflow THEN Overflow
             ELSE IF acc < 0 - (I32Max \div 10) THEN Overflow
             ELSE IF acc = 0 - (I32Max \div 10) /\ d > (I32Max % 10) + 1 THEN Overflow
             ELSE acc * 10 - d

\* str::parse::<i32>: an optional sign, then at least one digit, in range
ParseI32(s) ==
    LET signed == s # <<>> /\ s[1] \in {Plus, Minus}
        digits == IF signed THEN Tail(s) ELSE s
        neg == signed /\ s[1] = Minus
    IN  IF digits = <<>> \/ \E i \in 1..Len(digits) : ~IsDigit(digits[i])
        THEN [ok |-> FALSE]
        ELSE LET m == NegDigits(digits)
             IN  IF m = Overflow \/ (~neg /\ m < 0 - I32Max)
                 THEN [ok |-> FALSE]
                 ELSE [ok |-> TRUE, v |-> IF neg THEN m ELSE 0 - m]

(***************************************************************************)
(* serde.rs: get_next_word, tokenize and its three parsers.                *)
(***************************************************************************)
\* buf[pos..].windows(2).position(|w| w == b"\r\n"), as a position of buf;
\* NotFound for None
NotFound == -1

RECURSIVE crlf_position(_, _)
crlf_position(buf, i) ==
    IF i + 2 > Len(buf) THEN NotFound
    ELSE IF At(buf, i) = CR /\ At(buf, i + 1) = LF THEN i
    ELSE crlf_position(buf, i + 1)

word_at(pos, cr) ==
    IF cr = NotFound THEN [found |-> FALSE]
    ELSE [found |-> TRUE, tok |-> Tok(pos, cr), next |-> cr + 2]

get_next_word(buf, pos) ==
    IF pos >= Len(buf) THEN [found |-> FALSE]
    ELSE word_at(pos, crlf_position(buf, pos))

parse_basic_string(buf, pos) ==
    LET word == get_next_word(buf, pos)
    IN  IF word.found THEN OkSome(RawSimpleString(word.tok), word.next)
        ELSE OkNone

\* parse_bulk_string with the end offset taken one byte short of the CRLF
parse_bulk_string_short(buf, pos) ==
    LET word == get_next_word(buf, pos)
    IN  IF ~word.found THEN OkNone
        ELSE LET len == ParseI32(Slice(buf, word.tok.from, word.tok.to))
             IN  IF ~len.ok THEN Err
                 ELSE IF len.v = -1
                 THEN OkSome(RawNullBulkString(word.next), word.next)
                 ELSE IF len.v >= 0
                 THEN OkSome(RawBulkString(Tok(word.next, word.next + len.v)),
                             word.next + len.v + 1)
                 ELSE Err

parse_bulk_string(buf, pos) ==
    LET word == get_next_word(buf, pos)
    IN  IF ~word.found THEN OkNone
        ELSE LET len == ParseI32(Slice(buf, word.tok.from, word.tok.to))
             IN  IF ~len.ok THEN Err
                 ELSE IF len.v = -1
                 THEN OkSome(RawNullBulkString(word.next), word.next)
                 ELSE IF len.v >= 0
                 THEN OkSome(RawBulkString(Tok(word.next, word.next + len.v)),
                             word.next + len.v + 2)
                 ELSE Err

RECURSIVE tokenize(_, _), parse_array(_, _), parse_array_items(_, _, _, _)
tokenize(buf, pos) ==
    IF pos >= Len(buf) THEN OkNone
    ELSE IF At(buf, pos) = Plus THEN parse_basic_string(buf, pos + 1)
    ELSE IF At(buf, pos) = Dollar THEN parse_bulk_string(buf, pos + 1)
    ELSE IF At(buf, pos) = Star THEN parse_array(buf, pos + 1)
    ELSE Err

\* the for loop of parse_array: `left` iterations remain
parse_array_items(buf, cur_pos, left, array) ==
    IF left = 0 THEN OkSome(RawArray(array), cur_pos)
    ELSE LET parsed_tok == tokenize(buf, cur_pos)
         IN  IF parsed_tok.kind = "err" THEN Err
             ELSE IF parsed_tok.kind = "none" THEN OkNone
             ELSE parse_array_items(buf, parsed_tok.next, left - 1,
                                    Append(array, parsed_tok.raw))

parse_array(buf, pos) ==
    LET word == get_next_word(buf, pos)
    IN  IF ~word.found THEN OkNone
        ELSE LET len == ParseI32(Slice(buf, word.tok.from, word.tok.to))
             IN  IF ~len.ok THEN Err
                 ELSE IF len.v >= 0
                 THEN parse_array_items(buf, word.next, len.v, <<>>)
                 ELSE Err

\* RedisValue::serialize; payloads are ASCII text, for which from_utf8 succeeds
RECURSIVE serialize(_), serialize_all(_)
serialize(v) ==
    IF v.t = "SimpleString" THEN <<Plus>> \o v.b \o CRLF
    ELSE IF v.t = "BulkString"
    THEN <<Dollar>> \o ToDecimal(Len(v.b)) \o CRLF \o v.b \o CRLF
    ELSE IF v.t = "NullBulkString" THEN <<Dollar, Minus, Zero + 1>> \o CRLF
    ELSE IF v.t = "SimpleError" THEN <<Minus>> \o v.b \o CRLF
    ELSE <<Star>> \o ToDecimal(Len(v.a)) \o CRLF \o serialize_all(v.a)

\* arr.into_iter().map(serialize).collect().join("")
serialize_all(arr) ==
    IF arr = <<>> THEN <<>> ELSE serialize(Head(arr)) \o serialize_all(Tail(arr))

(***************************************************************************)
(* handler.rs: RedisValue::from_token and RedisConnectionHandler::_parse.  *)
(***************************************************************************)
RECURSIVE from_token(_, _)
from_token(raw, buf) ==
    IF raw.t = "SimpleString" THEN SimpleString(Slice(buf, raw.tok.from, raw.tok.to))
    ELSE IF raw.t = "BulkString" THEN BulkString(Slice(buf, raw.tok.from, raw.tok.to))
    ELSE IF raw.t = "NullBulkString" THEN NullBulkString
    ELSE Array([i \in 1..Len(raw.items) |-> from_token(raw.items[i], buf)])

\* RESPResult of _parse, with the buffer it leaves.  split_to panics when the
\* token's end lies past the end of the buffer.
ParseNone(buffer) == [kind |-> "none", rest |-> buffer]
ParsePanic == [kind |-> "panic"]
ParseSome(value, rest) == [kind |-> "some", value |-> value, rest |-> rest]

\* _parse that splits the frame off without its last two bytes
_parse_short(buffer, token) ==
    IF token.kind = "none" THEN ParseNone(buffer)
    ELSE IF token.next > Len(buffer) THEN ParsePanic
    ELSE ParseSome(from_token(token.raw, Slice(buffer, 0, token.next)),
                   Slice(buffer, token.next - 2, Len(buffer)))

\* _parse that empties the buffer instead of splitting the frame off
_parse_clear(buffer, token) ==
    IF token.kind = "none" THEN ParseNone(buffer)
    ELSE IF token.next > Len(buffer) THEN ParsePanic
    ELSE ParseSome(from_token(token.raw, Slice(buffer, 0, token.next)), <<>>)

_parse(buffer, token) ==
    IF token.kind = "none" THEN ParseNone(buffer)
    ELSE IF token.next > Len(buffer) THEN ParsePanic
    ELSE ParseSome(from_token(token.raw, Slice(buffer, 0, token.next)),
                   Slice(buffer, token.next, Len(buffer)))

\* the part of read_and_parse after the socket read: tokenize(..).expect(..),
\* then _parse
parse_buffer(buffer) ==
    LET token == tokenize(buffer, 0)
    IN  IF token.kind = "err" THEN ParsePanic ELSE _parse(buffer, token)

(***************************************************************************)
(* Maps (HashMap): functions on the set of keys present.                   *)
(***************************************************************************)
EmptyMap == [x \in {} |-> x]

Put(m, k, v) == [x \in DOMAIN m \cup {k} |-> IF x = k THEN v ELSE m[x]]

Del(m, k) == [x \in DOMAIN m \ {k} |-> m[x]]

(***************************************************************************)
(* server.rs: the snapshot loader.                                         *)
(***************************************************************************)
OpFB == 251
OpFC == 252
OpFE == 254
OpFF == 255

\* size_of::<usize>() of the target: usize::from_le_bytes takes that many bytes
UsizeBytes == 8

\* Absolute times are compared with clocks far below TimeCap; a larger
\* value is kept as TimeCap.
TimeCap == 1000000

RECURSIVE LeValue(_)
LeValue(bytes) ==
    IF bytes = <<>> THEN 0
    ELSE LET hi == LeValue(Tail(bytes))
             v == IF hi >= TimeCap THEN TimeCap ELSE bytes[1] + 256 * hi
         IN  IF v >= TimeCap THEN TimeCap ELSE v

RdbPanic == [kind |-> "panic"]
RdbErr == [kind |-> "err"]

\* (length, next position), or a panic: unwrap of a missing byte, the two
\* unimplemented encodings, a slice out of range, try_into of a 4 byte slice
parse_length_encoding(buf, pos) ==
    IF pos >= Len(buf) THEN RdbPanic
    ELSE LET enconding_byte == At(buf, pos)
             sel == enconding_byte \div 64
         IN  IF sel = 0 THEN [kind |-> "ok", v |-> enconding_byte % 64, next |-> pos + 1]
             ELSE IF sel = 1 THEN RdbPanic
             ELSE IF sel = 2
             THEN IF pos + 5 > Len(buf) \/ UsizeBytes # 4 THEN RdbPanic
                  ELSE [kind |-> "ok", v |-> LeValue(Slice(buf, pos + 1, pos + 5)),
                        next |-> pos + 5]
             ELSE RdbPanic

\* the (key, next) parse_rdb_string makes of the length l it has parsed
rdb_string_of(buf, l) ==
    IF l.kind # "ok" THEN l
    ELSE IF l.next + l.v > Len(buf) THEN RdbErr
    ELSE [kind |-> "ok", v |-> BulkString(Slice(buf, l.next, l.next + l.v)),
          next |-> l.next + l.v]

parse_rdb_string(buf, pos) == rdb_string_of(buf, parse_length_encoding(buf, pos))

\* key then value, as both match arms read them
rdb_pair_of(key, val) ==
    IF val.kind # "ok" THEN val
    ELSE [kind |-> "ok", key |-> key.v, val |-> val.v, next |-> val.next]

rdb_value_after(buf, key) ==
    IF key.kind # "ok" THEN key
    ELSE rdb_pair_of(key, parse_rdb_string(buf, key.next))

parse_rdb_pair(buf, pos) == rdb_value_after(buf, parse_rdb_string(buf, pos))

RdbLoaded(main, expire, complete) ==
    [kind |-> "ok", main |-> main, expire |-> expire, complete |-> complete]

\* Position, stores and state of the while loop of from_rdbfile after one
\* more iteration: "loop" goes on, "break" and "done" leave the loop without
\* and with the end marker, "panic" and "err" end start-up.
RdbAt(st, next_pos, main, expire) ==
    [st |-> st, next_pos |-> next_pos, main |-> main, expire |-> expire]

\* rdb_ttl_entry that also skips an entry whose deadline is t
rdb_ttl_entry_strict(s, expire_time_in_ms, kv, t) ==
    IF kv.kind # "ok" THEN RdbAt(kv.kind, s.next_pos, s.main, s.expire)
    ELSE IF expire_time_in_ms <= t THEN RdbAt("loop", kv.next, s.main, s.expire)
    ELSE RdbAt("loop", kv.next, Put(s.main, kv.key, kv.val),
               Put(s.expire, kv.key, expire_time_in_ms))

\* the 0xfc arm, once key and value are parsed
rdb_ttl_entry(s, expire_time_in_ms, kv, t) ==
    IF kv.kind # "ok" THEN RdbAt(kv.kind, s.next_pos, s.main, s.expire)
    ELSE IF expire_time_in_ms < t THEN RdbAt("loop", kv.next, s.main, s.expire)
    ELSE RdbAt("loop", kv.next, Put(s.main, kv.key, kv.val),
               Put(s.expire, kv.key, expire_time_in_ms))

\* the default arm, once key and value are parsed
rdb_plain_entry(s, kv) ==
    IF kv.kind # "ok" THEN RdbAt(kv.kind, s.next_pos, s.main, s.expire)
    ELSE RdbAt("loop", kv.next, Put(s.main, kv.key, kv.val), s.expire)

rdb_iteration(buf, s, t) ==
    IF s.next_pos >= Len(buf) \/ At(buf, s.next_pos) = OpFE
    THEN RdbAt("break", s.next_pos, s.main, s.expire)
    ELSE IF At(buf, s.next_pos) = OpFC
    THEN IF s.next_pos + 9 >= Len(buf)
         THEN RdbAt("panic", s.next_pos, s.main, s.expire)
         ELSE IF At(buf, s.next_pos + 9) # 0
         THEN RdbAt("break", s.next_pos, s.main, s.expire)
         ELSE rdb_ttl_entry(s, LeValue(Slice(buf, s.next_pos + 1, s.next_pos + 9)),
                            parse_rdb_pair(buf, s.next_pos + 10), t)
    ELSE IF At(buf, s.next_pos) = OpFF
    THEN RdbAt("done", s.next_pos, s.main, s.expire)
    ELSE IF At(buf, s.next_pos) # 0
    THEN RdbAt("break", s.next_pos, s.main, s.expire)
    ELSE rdb_plain_entry(s, parse_rdb_pair(buf, s.next_pos + 1))

RECURSIVE rdb_loop(_, _, _)
rdb_loop(buf, s, t) ==
    IF s.st = "loop" THEN rdb_loop(buf, rdb_iteration(buf, s, t), t) ELSE s

\* lines 184-197: what from_rdbfile returns once the loop has ended
rdb_result(s) ==
    IF s.st \in {"panic", "err"} THEN [kind |-> s.st]
    ELSE IF s.st = "done" THEN RdbLoaded(s.main, s.expire, TRUE)
    ELSE RdbLoaded(EmptyMap, EmptyMap, FALSE)

rdb_entries(buf, expire_store_size, t) ==
    IF expire_store_size.kind # "ok" THEN expire_store_size
    ELSE rdb_result(rdb_loop(buf, RdbAt("loop", expire_store_size.next,
                                        EmptyMap, EmptyMap), t))

rdb_sizes(buf, main_store_size, t) ==
    IF main_store_size.kind # "ok" THEN main_store_size
    ELSE rdb_entries(buf, parse_length_encoding(buf, main_store_size.next), t)

\* from_rdbfile on the bytes of a file that could be opened, read at time t:
\* the two stores, or the panic or error that ends start-up
from_rdbfile(buf, t) ==
    IF \A i \in 0..(Len(buf) - 1) : At(buf, i) # OpFB THEN RdbPanic
    ELSE rdb_sizes(buf, parse_length_encoding(
                            buf, Min({i \in 0..(Len(buf) - 1) : At(buf, i) = OpFB}) + 1), t)

(***************************************************************************)
(* The running server: one task per connection (main.rs), the shared       *)
(* keyspace behind its two mutexes, the wall clock, and the peers.         *)
(***************************************************************************)
VARIABLES
    main_store,     \* RedisServer.main_store: key |-> value
    expire_store,   \* RedisServer.expire_store: key |-> deadline in ms
    main_lock,      \* holder of the main_store mutex, or Free
    expire_lock,    \* holder of the expire_store mutex, or Free
    now,            \* SystemTime::now() in ms
    pc,             \* where each connection's task is suspended
    buffer,         \* RedisConnectionHandler.buffer
    cmd,            \* the command handler the task is in
    args,           \* CommandContext.args
    res,            \* the reply the task is writing
    sock_in,        \* bytes the peer has sent that the task has not read
    out,            \* replies written to the peer that it has not taken yet
    pending,        \* history: requests sent and not yet dispatched
    owed,           \* history: the request dispatched and not yet answered
    last_set,       \* history: key |-> the most recent SET executed on it
    ttl_seen,       \* history: keys that ever had an expiry entry
    why,            \* history: what ended the task of each connection
    cV, cBuf, cRes, cPhase,     \* a codec on its own: value, bytes, result
    config,         \* RedisServer.config
    rPc,            \* where the replica's connect is suspended
    rBuffer,        \* the buffer of the replica's handler
    rIn,            \* bytes the master has sent that connect has not read
    rEof,           \* the master has closed its side
    mSent           \* history: what the master has sent, write by write

keyspace == <<main_store, expire_store>>
locks == <<main_lock, expire_lock>>
task == <<pc, buffer, cmd, args, res>>
peer == <<sock_in, out, pending>>
history == <<owed, last_set, ttl_seen, why>>
codec == <<cV, cBuf, cRes, cPhase>>
replica == <<rPc, rBuffer, rIn, rEof, mSent>>
vars == <<keyspace, locks, now, task, peer, history, codec, config, replica>>

Conns == {"c1", "c2"}
Free == "free"
NoValue == [t |-> "None"]

\* the clock stops at MaxNow
MaxNow == 3

(***************************************************************************)
(* Text the source and the peers use.                                      *)
(***************************************************************************)
PING == <<80, 73, 78, 71>>
PONG == <<80, 79, 78, 71>>
OK == <<79, 75>>
SET == <<83, 69, 84>>
GET == <<71, 69, 84>>
KEYS == <<75, 69, 89, 83>>
ECHO == <<69, 67, 72, 79>>
INFO == <<73, 78, 70, 79>>
CONFIG == <<67, 79, 78, 70, 73, 71>>
PSYNC == <<80, 83, 89, 78, 67>>
REPLCONF == <<82, 69, 80, 76, 67, 79, 78, 70>>
PX == <<80, 88>>
InvalidCommand ==
    <<73, 110, 118, 97, 108, 105, 100, 32, 99, 111, 109, 109, 97, 110, 100, 58, 32, 39>>
Quote == <<39>>

\* char::to_uppercase on ASCII text
to_uppercase(s) ==
    [i \in 1..Len(s) |-> IF s[i] >= 97 /\ s[i] <= 122 THEN s[i] - 32 ELSE s[i]]

\* str::parse::<u64> of the PX argument
ParseU64(s) ==
    LET digits == IF s # <<>> /\ s[1] = Plus THEN Tail(s) ELSE s
    IN  IF digits = <<>> \/ \E i \in 1..Len(digits) : ~IsDigit(digits[i])
        THEN [ok |-> FALSE]
        ELSE LET m == NegDigits(digits)
             IN  IF m = Overflow \/ 0 - m >= TimeCap
                 THEN [ok |-> TRUE, v |-> TimeCap]
                 ELSE [ok |-> TRUE, v |-> 0 - m]

(***************************************************************************)
(* What the peers send, and the snapshots the server may start from.       *)
(***************************************************************************)
KeyK == BulkString(<<107>>)
KeyJ == BulkString(<<106>>)
ValV == BulkString(<<118>>)
ValW == BulkString(<<119>>)

ReqPing == Array(<<BulkString(PING)>>)
ReqSetV == Array(<<BulkString(SET), KeyK, ValV>>)
ReqSetW == Array(<<BulkString(SET), KeyK, ValW>>)
ReqSetPx == Array(<<BulkString(SET), KeyK, ValV, BulkString(<<112, 120>>), BulkString(<<49>>)>>)
ReqGet == Array(<<BulkString(<<103, 101, 116>>), KeyK>>)
ReqKeys == Array(<<BulkString(KEYS), BulkString(<<42>>)>>)

Requests == {ReqPing, ReqSetV, ReqSetW, ReqSetPx, ReqGet, ReqKeys}

\* "RE", FB, sizes, entries, FF
SnapEmpty == <<82, 69, OpFB, 0, 0, OpFF>>
\* j -> w with deadline 2
SnapTtl ==
    <<82, 69, OpFB, 1, 1, OpFC, 2, 0, 0, 0, 0, 0, 0, 0, 0, 1, 106, 1, 119, OpFF>>
\* j -> w without deadline, then k -> v with deadline 0
SnapMixed ==
    <<82, 69, OpFB, 2, 1, 0, 1, 106, 1, 119,
      OpFC, 0, 0, 0, 0, 0, 0, 0, 0, 0, 1, 107, 1, 118, OpFF>>
\* j -> w, the end marker missing
SnapCut == <<82, 69, OpFB, 1, 0, 0, 1, 106, 1, 119>>

Snapshots == {SnapEmpty, SnapTtl, SnapMixed, SnapCut}

(***************************************************************************)
(* main.rs, handle_connection: from the parsed request to the first point  *)
(* where the command awaits (a mutex or the socket write).  A task that    *)
(* returns, breaks out of its loop or panics is "closed".  The server is   *)
(* a master.                                                               *)
(***************************************************************************)
NoConfigObject ==
    <<78, 111, 32, 99, 111, 110, 102, 105, 103, 32, 111, 98, 106, 101, 99, 116, 32,
      101, 120, 105, 115, 116, 115>>
InvalidSubCommand ==
    <<73, 110, 118, 97, 108, 105, 100, 32, 115, 117, 98, 32, 99, 111, 109, 109, 97,
      110, 100, 32, 102, 111, 114, 32, 39, 67, 79, 78, 70, 73, 71, 39, 58, 32, 39>>
Dir == <<100, 105, 114>>
DbFilename == <<100, 98, 102, 105, 108, 101, 110, 97, 109, 101>>

\* config, the loop over the arguments after GET
RECURSIVE config_pairs(_)
config_pairs(keys) ==
    IF keys = <<>> THEN <<>>
    ELSE IF Head(keys).b = Dir
    THEN <<Head(keys), BulkString(config.dir)>> \o config_pairs(Tail(keys))
    ELSE IF Head(keys).b = DbFilename
    THEN <<Head(keys), BulkString(config.dbfilename)>> \o config_pairs(Tail(keys))
    ELSE config_pairs(Tail(keys))

\* config_reply that answers OK to a sub command it does not know
config_reply_ok(a) ==
    LET sub_cmd == to_uppercase(a[1].b)
    IN  IF sub_cmd = GET
        THEN IF config = NoValue THEN SimpleError(NoConfigObject)
             ELSE Array(config_pairs(Tail(a)))
        ELSE SimpleString(OK)

\* the reply of config to the arguments a, a[1] being the sub command
config_reply(a) ==
    LET sub_cmd == to_uppercase(a[1].b)
    IN  IF sub_cmd = GET
        THEN IF config = NoValue THEN SimpleError(NoConfigObject)
             ELSE Array(config_pairs(Tail(a)))
        ELSE SimpleError(InvalidSubCommand \o sub_cmd \o Quote)

\* gen_uuid: 40 characters of its charset; one id stands for all of them
ReplidLen == 40
Replid == [i \in 1..ReplidLen |-> 65]

\* "role:master", "master_replid:", "master_repl_offset:0"
RoleMaster == <<114, 111, 108, 101, 58, 109, 97, 115, 116, 101, 114>>
MasterReplidKey == <<109, 97, 115, 116, 101, 114, 95, 114, 101, 112, 108, 105, 100, 58>>
MasterReplOffset ==
    <<109, 97, 115, 116, 101, 114, 95, 114, 101, 112, 108, 95, 111, 102, 102, 115,
      101, 116, 58, 48>>

\* info of a master
info_data == RoleMaster \o CRLF \o MasterReplidKey \o Replid \o CRLF \o MasterReplOffset

\* "+FULLRESYNC " and " 0\r\n"
FullResync == <<43, 70, 85, 76, 76, 82, 69, 83, 89, 78, 67, 32>>
ZeroCRLF == <<32, 48, 13, 10>>

\* the text psync puts in its SimpleString
psync_line == FullResync \o Replid \o ZeroCRLF

Goto(to, c, a, r) == [to |-> to, cmd |-> c, args |-> a, res |-> r]

Close == Goto("closed", "", <<>>, NoValue)

\* dispatch that looks at the shape of the first element only
dispatch_first_only(value) ==
    IF value.t # "Array" THEN Close
    ELSE IF value.a = <<>> THEN Close
    ELSE IF value.a[1].t # "BulkString" THEN Close
    ELSE LET cmd_as_str == value.a[1].b
             name == to_uppercase(cmd_as_str)
             a == Tail(value.a)
         IN  IF name = PING THEN Goto("write", "PING", a, SimpleString(PONG))
             ELSE IF name = GET
             THEN IF Len(a) < 1 THEN Close ELSE Goto("lock_main", "GET", a, NoValue)
             ELSE Goto("write", "", a,
                       SimpleError(InvalidCommand \o cmd_as_str \o Quote))

dispatch(value) ==
    IF value.t # "Array" THEN Close
    ELSE IF \E i \in 1..Len(value.a) : value.a[i].t # "BulkString" THEN Close
    ELSE IF value.a = <<>> THEN Close
    ELSE LET cmd_as_str == value.a[1].b
             name == to_uppercase(cmd_as_str)
             a == Tail(value.a)
         IN  IF name = PING THEN Goto("write", "PING", a, SimpleString(PONG))
             ELSE IF name = ECHO
             THEN IF a = <<>> THEN Close ELSE Goto("write", "ECHO", a, a[1])
             ELSE IF name = SET
             THEN IF Len(a) < 2 THEN Close ELSE Goto("lock_main", "SET", a, NoValue)
             ELSE IF name = GET
             THEN IF Len(a) < 1 THEN Close ELSE Goto("lock_main", "GET", a, NoValue)
             ELSE IF name = KEYS
             THEN IF Len(a) < 1 THEN Close ELSE Goto("lock_main", "KEYS", a, NoValue)
             ELSE IF name = REPLCONF THEN Goto("write", "REPLCONF", a, SimpleString(OK))
             ELSE IF name = INFO THEN Goto("write", "INFO", a, BulkString(info_data))
             ELSE IF name = PSYNC
             THEN Goto("psync", "PSYNC", a, SimpleString(psync_line))
             ELSE IF name = CONFIG
             THEN IF Len(a) < 1 THEN Close
                  ELSE Goto("write", "CONFIG", a, config_reply(a))
             ELSE Goto("write", "", a,
                       SimpleError(InvalidCommand \o cmd_as_str \o Quote))

\* Release that drops the guard of main_store only
Release_main_only(c) ==
    /\ main_lock' = IF main_lock = c THEN Free ELSE main_lock
    /\ expire_lock' = expire_lock

\* the guards a task holds are dropped
Release(c) ==
    /\ main_lock' = IF main_lock = c THEN Free ELSE main_lock
    /\ expire_lock' = IF expire_lock = c THEN Free ELSE expire_lock

\* the task of c ends: its handler and its socket are dropped
End(c) ==
    /\ pc' = [pc EXCEPT ![c] = "closed"]
    /\ buffer' = [buffer EXCEPT ![c] = <<>>]
    /\ cmd' = [cmd EXCEPT ![c] = ""]
    /\ args' = [args EXCEPT ![c] = <<>>]
    /\ res' = [res EXCEPT ![c] = NoValue]
    /\ sock_in' = [sock_in EXCEPT ![c] = <<>>]
    /\ out' = [out EXCEPT ![c] = <<>>]
    /\ pending' = [pending EXCEPT ![c] = <<>>]
    /\ owed' = [owed EXCEPT ![c] = NoValue]

\* requests of c that are sent and not yet answered
Unanswered(c) == Len(pending[c]) + (IF owed[c] = NoValue THEN 0 ELSE 1)

(***************************************************************************)
(* The peers and the clock.                                                *)
(***************************************************************************)
\* the peer takes the replies it has got and sends a request; it never has
\* more than `limit` requests unanswered
ClientSend(c, r, limit) ==
    /\ pc[c] # "closed"
    /\ Unanswered(c) < limit
    /\ sock_in' = [sock_in EXCEPT ![c] = @ \o serialize(r)]
    /\ pending' = [pending EXCEPT ![c] = Append(@, r)]
    /\ out' = [out EXCEPT ![c] = <<>>]
    /\ UNCHANGED <<keyspace, locks, now, task, history, codec, config, replica>>

Tick ==
    /\ now < MaxNow
    /\ now' = now + 1
    /\ UNCHANGED <<keyspace, locks, task, peer, history, codec, config, replica>>

(***************************************************************************)
(* handler.rs read_and_parse, then main.rs up to the command's first await.*)
(***************************************************************************)
\* what ends the task when the buffer buf, parsed, gives it no command to run
read_end(buf, parsed) ==
    IF parsed.kind = "panic"
    THEN IF tokenize(buf, 0).kind = "err" THEN "framing" ELSE "overrun"
    ELSE IF parsed.kind = "none" THEN "incomplete"
    ELSE IF parsed.value.t # "Array" THEN "shape"
    ELSE IF \E i \in 1..Len(parsed.value.a) : parsed.value.a[i].t # "BulkString"
    THEN "shape"
    ELSE "arguments"

\* ReadBytes that drops a buffer that does not tokenize and reads on
ReadBytes_resync(c, n) ==
    LET buf == buffer[c] \o SubSeq(sock_in[c], 1, n)
        left == SubSeq(sock_in[c], n + 1, Len(sock_in[c]))
        parsed == parse_buffer(buf)
        d == dispatch(parsed.value)
    IN  /\ pc[c] = "read"
        /\ n \in 1..Len(sock_in[c])
        /\ IF parsed.kind = "panic"
           THEN /\ buffer' = [buffer EXCEPT ![c] = <<>>]
                /\ sock_in' = [sock_in EXCEPT ![c] = left]
                /\ pending' = [pending EXCEPT ![c] = Tail(@)]
                /\ UNCHANGED <<pc, cmd, args, res, out, owed, why>>
           ELSE IF parsed.kind = "none" \/ d.to = "closed"
           THEN End(c) /\ why' = [why EXCEPT ![c] = read_end(buf, parsed)]
           ELSE /\ pc' = [pc EXCEPT ![c] = d.to]
                /\ buffer' = [buffer EXCEPT ![c] = parsed.rest]
                /\ cmd' = [cmd EXCEPT ![c] = d.cmd]
                /\ args' = [args EXCEPT ![c] = d.args]
                /\ res' = [res EXCEPT ![c] = d.res]
                /\ sock_in' = [sock_in EXCEPT ![c] = left]
                /\ pending' = [pending EXCEPT ![c] = Tail(@)]
                /\ owed' = [owed EXCEPT ![c] = parsed.value]
                /\ UNCHANGED <<out, why>>
        /\ UNCHANGED <<keyspace, locks, now, last_set, ttl_seen, codec, config, replica>>

\* read_buf returned n > 0 bytes
ReadBytes(c, n) ==
    LET buf == buffer[c] \o SubSeq(sock_in[c], 1, n)
        left == SubSeq(sock_in[c], n + 1, Len(sock_in[c]))
        parsed == parse_buffer(buf)
        d == dispatch(parsed.value)
    IN  /\ pc[c] = "read"
        /\ n \in 1..Len(sock_in[c])
        /\ IF parsed.kind \in {"panic", "none"} \/ d.to = "closed"
           THEN End(c) /\ why' = [why EXCEPT ![c] = read_end(buf, parsed)]
           ELSE /\ pc' = [pc EXCEPT ![c] = d.to]
                /\ buffer' = [buffer EXCEPT ![c] = parsed.rest]
                /\ cmd' = [cmd EXCEPT ![c] = d.cmd]
                /\ args' = [args EXCEPT ![c] = d.args]
                /\ res' = [res EXCEPT ![c] = d.res]
                /\ sock_in' = [sock_in EXCEPT ![c] = left]
                /\ pending' = [pending EXCEPT ![c] = Tail(@)]
                /\ owed' = [owed EXCEPT ![c] = parsed.value]
                /\ UNCHANGED <<out, why>>
        /\ UNCHANGED <<keyspace, locks, now, last_set, ttl_seen, codec, config, replica>>

\* read_buf returned 0: the peer has closed and nothing is left to read
ReadEof(c) ==
    /\ pc[c] = "read"
    /\ sock_in[c] = <<>>
    /\ End(c)
    /\ why' = [why EXCEPT ![c] = "eof"]
    /\ UNCHANGED <<keyspace, locks, now, last_set, ttl_seen, codec, config, replica>>

\* the socket fails under a pending read or write: expect / unwrap panic
SocketError(c) ==
    /\ pc[c] \in {"read", "write"}
    /\ End(c)
    /\ Release(c)
    /\ why' = [why EXCEPT ![c] = "io"]
    /\ UNCHANGED <<keyspace, now, last_set, ttl_seen, codec, config, replica>>

(***************************************************************************)
(* commands.rs: set, get, keys.  Each takes main_store.lock() and then     *)
(* expire_store.lock(); the guards live until the function returns.        *)
(***************************************************************************)
LockMain(c) ==
    /\ pc[c] = "lock_main"
    /\ main_lock = Free
    /\ main_lock' = c
    /\ pc' = [pc EXCEPT ![c] = "lock_expire"]
    /\ UNCHANGED <<keyspace, expire_lock, now, buffer, cmd, args, res, peer,
                   history, codec, config, replica>>

\* expire_store.lock() returns to the task of c
LockExpire(c) ==
    /\ pc[c] = "lock_expire"
    /\ expire_lock = Free
    /\ expire_lock' = c
    /\ UNCHANGED main_lock

NoPx == -1

\* set_timeout that takes an option it does not know for no option
set_timeout_lenient(a, t) ==
    IF Len(a) < 3 THEN [kind |-> "none"]
    ELSE IF to_uppercase(a[3].b) = PX
    THEN IF Len(a) < 4 THEN [kind |-> "panic"]
         ELSE LET timeout_value == ParseU64(a[4].b)
              IN  IF ~timeout_value.ok THEN [kind |-> "panic"]
                  ELSE [kind |-> "some", v |-> t + timeout_value.v]
    ELSE [kind |-> "none"]

\* set_timeout with the PX argument taken as seconds
set_timeout_seconds(a, t) ==
    IF Len(a) < 3 THEN [kind |-> "none"]
    ELSE IF to_uppercase(a[3].b) = PX
    THEN IF Len(a) < 4 THEN [kind |-> "panic"]
         ELSE LET timeout_value == ParseU64(a[4].b)
              IN  IF ~timeout_value.ok THEN [kind |-> "panic"]
                  ELSE [kind |-> "some", v |-> t + 1000 * timeout_value.v]
    ELSE [kind |-> "panic"]

\* the timeout of set: [kind |-> "none"] without a third argument, the
\* deadline with PX, a panic otherwise
set_timeout(a, t) ==
    IF Len(a) < 3 THEN [kind |-> "none"]
    ELSE IF to_uppercase(a[3].b) = PX
    THEN IF Len(a) < 4 THEN [kind |-> "panic"]
         ELSE LET timeout_value == ParseU64(a[4].b)
              IN  IF ~timeout_value.ok THEN [kind |-> "panic"]
                  ELSE [kind |-> "some", v |-> t + timeout_value.v]
    ELSE [kind |-> "panic"]

\* what the history keeps of a SET: the value, and the first instant at
\* which more than the PX time has passed
SetRecord(a, t) ==
    [val |-> a[2],
     due |-> IF Len(a) >= 4 /\ ParseU64(a[4].b).ok THEN t + ParseU64(a[4].b).v ELSE NoPx]

\* set, lines 75-98: the second lock, the option and expire_store.insert
SetExpire(c) ==
    LET timeout == set_timeout(args[c], now)
    IN  /\ pc[c] = "lock_expire" /\ cmd[c] = "SET"
        /\ expire_lock = Free
        /\ IF timeout.kind = "panic"
           THEN /\ End(c)
                /\ main_lock' = Free
                /\ why' = [why EXCEPT ![c] = "set_option"]
                /\ UNCHANGED <<keyspace, expire_lock, last_set, ttl_seen>>
           ELSE /\ LockExpire(c)
                /\ pc' = [pc EXCEPT ![c] = "set_main"]
                /\ expire_store' = IF timeout.kind = "some"
                                   THEN Put(expire_store, args[c][1], timeout.v)
                                   ELSE expire_store
                /\ last_set' = Put(last_set, args[c][1], SetRecord(args[c], now))
                /\ ttl_seen' = IF timeout.kind = "some"
                               THEN ttl_seen \cup {args[c][1]} ELSE ttl_seen
                /\ UNCHANGED <<main_store, buffer, cmd, args, res, peer, owed, why>>
        /\ UNCHANGED <<now, codec, config, replica>>

\* SetMain that drops the deadline of the key when the SET has no option
SetMain_persist(c) ==
    /\ pc[c] = "set_main"
    /\ main_store' = Put(main_store, args[c][1], args[c][2])
    /\ expire_store' = IF Len(args[c]) < 3 THEN Del(expire_store, args[c][1])
                       ELSE expire_store
    /\ pc' = [pc EXCEPT ![c] = "write"]
    /\ res' = [res EXCEPT ![c] = SimpleString(OK)]
    /\ UNCHANGED <<locks, now, buffer, cmd, args, peer, history, codec, config, replica>>

\* set, lines 99-101: main_store.insert and the reply
SetMain(c) ==
    /\ pc[c] = "set_main"
    /\ main_store' = Put(main_store, args[c][1], args[c][2])
    /\ pc' = [pc EXCEPT ![c] = "write"]
    /\ res' = [res EXCEPT ![c] = SimpleString(OK)]
    /\ UNCHANGED <<expire_store, locks, now, buffer, cmd, args, peer, history, codec, config, replica>>

\* get_expired with 0 instead of u64::MAX for a key without deadline
get_expired_or_zero(expire, key, t) == key \notin DOMAIN expire \/ expire[key] < t

\* get_expired that takes a key for expired at its deadline already
get_expired_at_deadline(expire, key, t) == key \in DOMAIN expire /\ expire[key] <= t

\* `*timestamp < now()` of get, with u64::MAX for a key without deadline
get_expired(expire, key, t) == key \in DOMAIN expire /\ expire[key] < t

\* get, lines 111-118 and 121-126: the second lock, the lookup, and
\* main_store.remove
GetLookup(c) ==
    LET key == args[c][1]
    IN  /\ pc[c] = "lock_expire" /\ cmd[c] = "GET"
        /\ LockExpire(c)
        /\ IF key \in DOMAIN main_store /\ get_expired(expire_store, key, now)
           THEN /\ main_store' = Del(main_store, key)
                /\ pc' = [pc EXCEPT ![c] = "get_expire"]
                /\ UNCHANGED res
           ELSE /\ pc' = [pc EXCEPT ![c] = "write"]
                /\ res' = [res EXCEPT ![c] = IF key \in DOMAIN main_store
                                             THEN main_store[key]
                                             ELSE NullBulkString]
                /\ UNCHANGED main_store
        /\ UNCHANGED <<expire_store, now, buffer, cmd, args, peer, history, codec, config, replica>>

\* GetExpire that leaves the entry of the key in expire_store
GetExpire_keep(c) ==
    /\ pc[c] = "get_expire"
    /\ expire_store' = expire_store
    /\ pc' = [pc EXCEPT ![c] = "write"]
    /\ res' = [res EXCEPT ![c] = NullBulkString]
    /\ UNCHANGED <<main_store, locks, now, buffer, cmd, args, peer, history, codec, config, replica>>

\* get, lines 119-120: expire_store.remove and the null reply
GetExpire(c) ==
    /\ pc[c] = "get_expire"
    /\ expire_store' = Del(expire_store, args[c][1])
    /\ pc' = [pc EXCEPT ![c] = "write"]
    /\ res' = [res EXCEPT ![c] = NullBulkString]
    /\ UNCHANGED <<main_store, locks, now, buffer, cmd, args, peer, history, codec, config, replica>>

\* keys_skip that also skips a key whose deadline is the current instant
keys_skip_at_deadline(expire, key, t) == key \in DOMAIN expire /\ expire[key] <= t

\* the test of keys that skips a key; the loop over the keys is taken to
\* read the clock at one instant t
keys_skip(expire, key, t) == key \in DOMAIN expire /\ expire[key] < t

\* the orders in which a HashMap may yield the keys of S
Orders(S) ==
    {f \in [1..Cardinality(S) -> S] : \A i, j \in 1..Cardinality(S) : f[i] = f[j] => i = j}

\* keys_reply without the test of the deadlines
keys_reply_all(order, expire, t) == Array(order)

\* the loop of keys over main_store.keys() in the order the map yields them
keys_reply(order, expire, t) ==
    Array(SelectSeq(order, LAMBDA k : ~keys_skip(expire, k, t)))

KeysScan(c) ==
    /\ pc[c] = "lock_expire" /\ cmd[c] = "KEYS"
    /\ LockExpire(c)
    /\ \E order \in Orders(DOMAIN main_store) :
          res' = [res EXCEPT ![c] = keys_reply(order, expire_store, now)]
    /\ pc' = [pc EXCEPT ![c] = "write"]
    /\ UNCHANGED <<keyspace, now, buffer, cmd, args, peer, history, codec, config, replica>>

\* handler.rs write: the reply goes out, the command returns (dropping its
\* guards) and the loop of handle_connection reads again.  The socket is
\* taken to accept the whole reply; SpecWrite has the socket that does not.
Write(c) ==
    /\ pc[c] = "write"
    /\ out' = [out EXCEPT ![c] = Append(@, res[c])]
    /\ pc' = [pc EXCEPT ![c] = "read"]
    /\ cmd' = [cmd EXCEPT ![c] = ""]
    /\ args' = [args EXCEPT ![c] = <<>>]
    /\ res' = [res EXCEPT ![c] = NoValue]
    /\ owed' = [owed EXCEPT ![c] = NoValue]
    /\ Release(c)
    /\ UNCHANGED <<keyspace, now, buffer, sock_in, pending, last_set, ttl_seen, why, codec, config, replica>>

(***************************************************************************)
(* commands.rs: psync.  Three writes: the SimpleString, then "$<len>\r\n"  *)
(* and the bytes of the file empty.rdb by write_raw.                       *)
(***************************************************************************)
\* bytes that write_raw puts on the socket as they are
Raw(b) == [t |-> "Raw", b |-> b]

\* what the file empty.rdb may hold
RdbFiles == {<<>>, <<82, 69, OpFB, 0, 0, OpFF>>}

\* line 249: handler.write(res)
PsyncWrite(c) ==
    /\ pc[c] = "psync"
    /\ out' = [out EXCEPT ![c] = Append(@, res[c])]
    /\ pc' = [pc EXCEPT ![c] = "psync_file"]
    /\ UNCHANGED <<keyspace, locks, now, buffer, cmd, args, res, sock_in, pending,
                   history, codec, config, replica>>

\* lines 252-254: the file is opened and read, or `?` returns the error and
\* the unwrap in handle_connection panics
PsyncFile(c) ==
    /\ pc[c] = "psync_file"
    /\ \/ /\ \E file \in RdbFiles : res' = [res EXCEPT ![c] = Raw(file)]
          /\ pc' = [pc EXCEPT ![c] = "psync_len"]
          /\ UNCHANGED <<buffer, cmd, args, peer, history>>
       \/ /\ End(c)
          /\ why' = [why EXCEPT ![c] = "file"]
          /\ UNCHANGED <<last_set, ttl_seen>>
    /\ UNCHANGED <<keyspace, locks, now, codec, config, replica>>

\* lines 256-259: write_raw of the length line
PsyncLen(c) ==
    /\ pc[c] = "psync_len"
    /\ out' = [out EXCEPT ![c] =
                  Append(@, Raw(<<Dollar>> \o ToDecimal(Len(res[c].b)) \o CRLF))]
    /\ pc' = [pc EXCEPT ![c] = "psync_rdb"]
    /\ UNCHANGED <<keyspace, locks, now, buffer, cmd, args, res, sock_in, pending,
                   history, codec, config, replica>>

\* lines 260-262: write_raw of the file, and psync returns
PsyncRdb(c) ==
    /\ pc[c] = "psync_rdb"
    /\ out' = [out EXCEPT ![c] = Append(@, res[c])]
    /\ pc' = [pc EXCEPT ![c] = "read"]
    /\ cmd' = [cmd EXCEPT ![c] = ""]
    /\ args' = [args EXCEPT ![c] = <<>>]
    /\ res' = [res EXCEPT ![c] = NoValue]
    /\ owed' = [owed EXCEPT ![c] = NoValue]
    /\ UNCHANGED <<keyspace, locks, now, buffer, sock_in, pending, last_set, ttl_seen,
                   why, codec, config, replica>>

\* one of the three writes of psync fails: `?`, then the unwrap panics
PsyncSocketError(c) ==
    /\ pc[c] \in {"psync", "psync_len", "psync_rdb"}
    /\ End(c)
    /\ why' = [why EXCEPT ![c] = "io"]
    /\ UNCHANGED <<keyspace, locks, now, last_set, ttl_seen, codec, config, replica>>

\* the bytes on the socket for what was written: serialize for a value
\* written by write, the bytes themselves for write_raw
RECURSIVE wire(_)
wire(written) ==
    IF written = <<>> THEN <<>>
    ELSE (IF Head(written).t = "Raw" THEN Head(written).b ELSE serialize(Head(written)))
            \o wire(Tail(written))

(***************************************************************************)
(* The server: started from a snapshot that loads, then serving.           *)
(***************************************************************************)
StartNow == 1

\* RedisServerConfig of a server started with --dir d --dbfilename f
SomeConfig == [dir |-> <<100>>, dbfilename |-> <<102>>]

\* no replica is being started
ReplicaOff ==
    rPc = "off" /\ rBuffer = <<>> /\ rIn = <<>> /\ rEof = FALSE /\ mSent = <<>>

CodecOff == cV = NoValue /\ cBuf = <<>> /\ cRes = NoValue /\ cPhase = "off"

Init ==
    /\ now = StartNow
    /\ \E snap \in Snapshots :
          /\ from_rdbfile(snap, now).kind = "ok"
          /\ main_store = from_rdbfile(snap, now).main
          /\ expire_store = from_rdbfile(snap, now).expire
    /\ ttl_seen = DOMAIN expire_store
    /\ last_set = EmptyMap
    /\ main_lock = Free /\ expire_lock = Free
    /\ pc = [c \in Conns |-> "read"]
    /\ buffer = [c \in Conns |-> <<>>]
    /\ cmd = [c \in Conns |-> ""]
    /\ args = [c \in Conns |-> <<>>]
    /\ res = [c \in Conns |-> NoValue]
    /\ sock_in = [c \in Conns |-> <<>>]
    /\ out = [c \in Conns |-> <<>>]
    /\ pending = [c \in Conns |-> <<>>]
    /\ owed = [c \in Conns |-> NoValue]
    /\ why = [c \in Conns |-> ""]
    /\ CodecOff
    /\ config = SomeConfig
    /\ ReplicaOff

Next ==
    \/ Tick
    \/ \E c \in Conns :
          \/ \E r \in Requests : ClientSend(c, r, 1)
          \/ \E n \in 1..Len(sock_in[c]) : ReadBytes(c, n)
          \/ ReadEof(c)
          \/ SocketError(c)
          \/ LockMain(c)
          \/ SetExpire(c)
          \/ SetMain(c)
          \/ GetLookup(c)
          \/ GetExpire(c)
          \/ KeysScan(c)
          \/ Write(c)

Spec == Init /\ [][Next]_vars

(***************************************************************************)
(* The codec on its own: a value is serialized, the bytes (all of them, or *)
(* a proper prefix) are put in an empty connection buffer, and the buffer  *)
(* is tokenized and parsed the way read_and_parse does.                    *)
(***************************************************************************)
MaxStrLen == 2
MaxArrLen == 2

\* payload bytes: 'a', CR, LF
Alphabet == {97, CR, LF}

RECURSIVE SeqsUpTo(_, _)
SeqsUpTo(S, n) ==
    IF n = 0 THEN {<<>>}
    ELSE LET shorter == SeqsUpTo(S, n - 1)
         IN  shorter \cup {Append(q, x) : q \in shorter, x \in S}

HasCRLF(b) == \E i \in 1..(Len(b) - 1) : b[i] = CR /\ b[i + 1] = LF

\* ten bytes, so that its length takes two digits
LongText == <<97, 97, 97, 97, 97, 97, 97, 97, 97, 97>>

Leaves(texts) ==
    {SimpleString(b) : b \in {x \in texts : ~HasCRLF(x)}}
        \cup {BulkString(b) : b \in texts} \cup {NullBulkString}

TopLeaves == Leaves(SeqsUpTo(Alphabet, MaxStrLen) \cup {LongText})

Elements == Leaves(SeqsUpTo(Alphabet, 1)) \cup {BulkString(CRLF)}

Inner ==
    {NullBulkString, BulkString(<<>>), Array(<<>>),
     Array(<<SimpleString(<<97>>), BulkString(CRLF)>>)}

CodecValues ==
    TopLeaves \cup {Array(a) : a \in SeqsUpTo(Elements, MaxArrLen)}
              \cup {Array(a) : a \in SeqsUpTo(Inner, MaxArrLen)}

\* what tokenize returns on the buffer, and what _parse makes of it
CodecRun(buf) == [tok |-> tokenize(buf, 0), parsed |-> parse_buffer(buf)]

ServerOff ==
    /\ now = StartNow
    /\ main_store = EmptyMap /\ expire_store = EmptyMap
    /\ ttl_seen = {} /\ last_set = EmptyMap
    /\ main_lock = Free /\ expire_lock = Free
    /\ pc = [c \in Conns |-> "closed"]
    /\ buffer = [c \in Conns |-> <<>>]
    /\ cmd = [c \in Conns |-> ""]
    /\ args = [c \in Conns |-> <<>>]
    /\ res = [c \in Conns |-> NoValue]
    /\ sock_in = [c \in Conns |-> <<>>]
    /\ out = [c \in Conns |-> <<>>]
    /\ pending = [c \in Conns |-> <<>>]
    /\ owed = [c \in Conns |-> NoValue]
    /\ why = [c \in Conns |-> ""]
    /\ config = NoValue
    /\ ReplicaOff

server == <<keyspace, locks, now, task, peer, history, config, replica>>

InitCodec ==
    /\ ServerOff
    /\ cV \in CodecValues
    /\ cBuf = <<>> /\ cRes = NoValue /\ cPhase = "value"

CodecSerialize ==
    /\ cPhase = "value"
    /\ cBuf' = serialize(cV)
    /\ cPhase' = "wire"
    /\ UNCHANGED <<server, cV, cRes>>

\* only the first n bytes have arrived
CodecCut(n) ==
    /\ cPhase = "wire"
    /\ n < Len(cBuf)
    /\ cBuf' = SubSeq(cBuf, 1, n)
    /\ cPhase' = "cut"
    /\ UNCHANGED <<server, cV, cRes>>

CodecParse ==
    /\ cPhase \in {"wire", "cut"}
    /\ cRes' = CodecRun(cBuf)
    /\ cPhase' = IF cPhase = "wire" THEN "whole" ELSE "part"
    /\ UNCHANGED <<server, cV, cBuf>>

NextCodec ==
    \/ CodecSerialize
    \/ \E n \in 0..Len(cBuf) : CodecCut(n)
    \/ CodecParse

SpecCodec == InitCodec /\ [][NextCodec]_vars

C2_PartialIsIncomplete ==
    cPhase = "part" =>
        /\ cRes.tok.kind = "none"
        /\ cRes.parsed.kind = "none"
        /\ cRes.parsed.rest = cBuf

(***************************************************************************)
(* One connection whose peer pipelines: up to MaxPipe requests are sent    *)
(* before the replies are awaited.                                         *)
(***************************************************************************)
MaxPipe == 2

PipeConn == "c1"

PipeRequests == {ReqPing, ReqSetV, ReqGet, ReqKeys}

InitPipe ==
    /\ now = StartNow
    /\ main_store = EmptyMap /\ expire_store = EmptyMap
    /\ ttl_seen = {} /\ last_set = EmptyMap
    /\ main_lock = Free /\ expire_lock = Free
    /\ pc = [c \in Conns |-> IF c = PipeConn THEN "read" ELSE "closed"]
    /\ buffer = [c \in Conns |-> <<>>]
    /\ cmd = [c \in Conns |-> ""]
    /\ args = [c \in Conns |-> <<>>]
    /\ res = [c \in Conns |-> NoValue]
    /\ sock_in = [c \in Conns |-> <<>>]
    /\ out = [c \in Conns |-> <<>>]
    /\ pending = [c \in Conns |-> <<>>]
    /\ owed = [c \in Conns |-> NoValue]
    /\ why = [c \in Conns |-> ""]
    /\ CodecOff
    /\ config = NoValue
    /\ ReplicaOff

NextPipe ==
    \/ \E r \in PipeRequests : ClientSend(PipeConn, r, MaxPipe)
    \/ \E n \in 1..Len(sock_in[PipeConn]) : ReadBytes(PipeConn, n)
    \/ ReadEof(PipeConn)
    \/ SocketError(PipeConn)
    \/ LockMain(PipeConn)
    \/ SetExpire(PipeConn)
    \/ SetMain(PipeConn)
    \/ GetLookup(PipeConn)
    \/ KeysScan(PipeConn)
    \/ Write(PipeConn)

SpecPipe == InitPipe /\ [][NextPipe]_vars

(***************************************************************************)
(* Properties of the server.                                               *)
(***************************************************************************)
Range(q) == {q[i] : i \in DOMAIN q}

\* buf is the beginning of a request, and not all of it
PartialFrame(buf) ==
    /\ buf # <<>>
    /\ \E r \in Requests :
          /\ Len(buf) < Len(serialize(r))
          /\ buf = SubSeq(serialize(r), 1, Len(buf))

\* C3: a read that leaves only an incomplete frame in the connection buffer
\* keeps the connection open: the handler keeps the bytes and reads again.
C3_IncompleteKeepsOpen ==
    [][\A c \in Conns : \A n \in 1..Len(sock_in[c]) :
          (ReadBytes(c, n) /\ PartialFrame(buffer[c] \o SubSeq(sock_in[c], 1, n)))
              => /\ pc'[c] = "read"
                 /\ buffer'[c] = buffer[c] \o SubSeq(sock_in[c], 1, n)]_vars

\* C4: a GET of a key that was SET, that no SET has given a PX time and that
\* had no expiry entry in the snapshot replies the value of the most recent
\* SET of that key.
C4_GetReturnsLastSet ==
    \A c \in Conns :
        (/\ pc[c] = "write" /\ cmd[c] = "GET"
         /\ args[c][1] \in DOMAIN last_set
         /\ args[c][1] \notin ttl_seen)
            => res[c] = last_set[args[c][1]].val

\* the second SET of k has replaced the value, and a GET replied it
C4_Witness ==
    \E c \in Conns :
        /\ pc[c] = "write" /\ cmd[c] = "GET"
        /\ args[c][1] = KeyK
        /\ KeyK \notin ttl_seen
        /\ KeyK \in DOMAIN last_set
        /\ last_set[KeyK].val = ValW
        /\ res[c] = ValW
        /\ \E d \in Conns : out[d] = <<SimpleString(OK)>>

\* the most recent SET of key had a PX time, and more than that has passed
PxPassed(key, t) ==
    /\ key \in DOMAIN last_set
    /\ last_set[key].due # NoPx
    /\ t > last_set[key].due

\* C5: a GET k that runs when more than the PX time of the most recent SET
\* of k has passed replies NullBulkString, and when it has its reply k is
\* in neither main_store nor expire_store.
C5_GetAfterPxIsNull ==
    [][\A c \in Conns :
          /\ (/\ pc[c] = "lock_expire" /\ cmd[c] = "GET"
              /\ pc'[c] \in {"get_expire", "write"}
              /\ PxPassed(args[c][1], now))
                 => /\ args[c][1] \notin DOMAIN main_store'
                    /\ pc'[c] = "write" =>
                          /\ res'[c] = NullBulkString
                          /\ args[c][1] \notin DOMAIN expire_store'
          /\ (pc[c] = "get_expire" /\ pc'[c] = "write")
                 => /\ res'[c] = NullBulkString
                    /\ args[c][1] \notin DOMAIN main_store'
                    /\ args[c][1] \notin DOMAIN expire_store']_vars

\* a GET found the key of a SET with PX past its time and removed it
C5_Witness ==
    \E c \in Conns :
        /\ pc[c] = "write" /\ cmd[c] = "GET"
        /\ PxPassed(args[c][1], now)
        /\ res[c] = NullBulkString
        /\ args[c][1] \in ttl_seen
        /\ args[c][1] \notin DOMAIN main_store
        /\ args[c][1] \notin DOMAIN expire_store

\* the keys of main_store without a deadline or with a deadline that has
\* not passed at instant t
LiveKeys(t) ==
    {k \in DOMAIN main_store : k \notin DOMAIN expire_store \/ expire_store[k] >= t}

\* C6: the reply of KEYS is an Array that holds every key of main_store that
\* has no deadline or a deadline that has not passed, each once, and no
\* other key.
C6_KeysListsLiveKeys ==
    [][\A c \in Conns :
          (pc[c] = "lock_expire" /\ cmd[c] = "KEYS" /\ pc'[c] = "write")
              => /\ res'[c].t = "Array"
                 /\ Range(res'[c].a) = LiveKeys(now)
                 /\ Len(res'[c].a) = Cardinality(LiveKeys(now))]_vars

\* of two keys in main_store, KEYS listed the one that is live
C6_Witness ==
    \E c \in Conns :
        /\ pc[c] = "write" /\ cmd[c] = "KEYS"
        /\ Cardinality(DOMAIN main_store) = 2
        /\ Len(res[c].a) = 1

\* the keys of main_store whose deadline is at or before instant t
DueKeys(t) ==
    {k \in DOMAIN main_store : k \in DOMAIN expire_store /\ expire_store[k] <= t}

\* the keys of main_store whose deadline is before instant t
OverdueKeys(t) ==
    {k \in DOMAIN main_store : k \in DOMAIN expire_store /\ expire_store[k] < t}

\* every key of the set `gone` is absent to the GET or KEYS that c runs in
\* this step
AbsentToClients(c, gone) ==
    /\ (/\ pc[c] = "lock_expire" /\ cmd[c] = "GET"
        /\ pc'[c] \in {"get_expire", "write"}
        /\ args[c][1] \in gone)
           => \/ pc'[c] = "get_expire"
              \/ res'[c] = NullBulkString
    /\ (pc[c] = "get_expire" /\ pc'[c] = "write") => res'[c] = NullBulkString
    /\ (pc[c] = "lock_expire" /\ cmd[c] = "KEYS" /\ pc'[c] = "write")
           => Range(res'[c].a) \cap gone = {}

\* C7 as stated: a key whose deadline is less than or equal to the current
\* time is absent: GET replies NullBulkString and KEYS does not list it.
C7_DueKeyIsAbsent ==
    [][\A c \in Conns : AbsentToClients(c, DueKeys(now))]_vars

\* C7, amended: a key whose deadline is strictly less than the current time
\* is absent: GET replies NullBulkString and KEYS does not list it.
C7_OverdueKeyIsAbsent ==
    [][\A c \in Conns : AbsentToClients(c, OverdueKeys(now))]_vars

\* KEYS listed nothing although main_store holds a key, its deadline passed
C7_Witness ==
    \E c \in Conns :
        /\ pc[c] = "write" /\ cmd[c] = "KEYS"
        /\ res[c] = Array(<<>>)
        /\ main_lock = c /\ expire_lock = c
        /\ \E k \in DOMAIN main_store :
              k \in DOMAIN expire_store /\ expire_store[k] < now

\* C8: in every state where no task holds a keyspace lock, every key of
\* expire_store is a key of main_store.
C8_ExpiryWithinMain ==
    (main_lock = Free /\ expire_lock = Free)
        => DOMAIN expire_store \subseteq DOMAIN main_store

\* a key of the snapshot and a key of a SET with PX both have deadlines,
\* and no lock is held
C8_Witness ==
    /\ main_lock = Free /\ expire_lock = Free
    /\ Cardinality(DOMAIN expire_store) = 2
    /\ KeyK \in DOMAIN last_set

\* the reply `rep` is one the command of request `req` gives
ReplyFits(req, rep) ==
    LET name == to_uppercase(req.a[1].b)
    IN  /\ name = PING => rep = SimpleString(PONG)
        /\ name = SET => rep = SimpleString(OK)
        /\ name = GET => rep.t \in {"BulkString", "NullBulkString"}
        /\ name = KEYS => rep.t = "Array"

\* C9: on one connection the request dispatched is the oldest one not yet
\* dispatched, it is dispatched and bytes are read only when no reply is
\* owed, and a reply is written only for the request dispatched last, one
\* reply for it.
C9_InArrivalOrder ==
    [][\A c \in Conns :
          /\ (owed'[c] # owed[c] /\ owed'[c] # NoValue)
                => /\ owed[c] = NoValue
                   /\ pending[c] # <<>>
                   /\ owed'[c] = Head(pending[c])
                   /\ pending'[c] = Tail(pending[c])
          /\ (Len(sock_in'[c]) < Len(sock_in[c]) /\ pc'[c] # "closed")
                => owed[c] = NoValue
          /\ (out'[c] # out[c] /\ out'[c] # <<>>)
                => /\ owed[c] # NoValue
                   /\ owed'[c] = NoValue
                   /\ Len(out'[c]) = Len(out[c]) + 1
                   /\ SubSeq(out'[c], 1, Len(out[c])) = out[c]
                   /\ ReplyFits(owed[c], out'[c][Len(out'[c])])]_vars

\* SET k v and GET k were sent together and answered in that order
C9_Witness ==
    /\ out[PipeConn] = <<SimpleString(OK), ValV>>
    /\ pending[PipeConn] = <<>>
    /\ owed[PipeConn] = NoValue

\* C10: a task that is suspended on its socket holds neither the lock of
\* main_store nor the lock of expire_store.
C10_NoLockAcrossSocketIO ==
    \A c \in Conns :
        pc[c] \in {"read", "write"} => (main_lock # c /\ expire_lock # c)

(***************************************************************************)
(* Two connections whose peers also send frames that do not parse, values  *)
(* that are no requests, and requests that end in an error.                *)
(***************************************************************************)
\* ":1\r\n", "$-2\r\n", "*-1\r\n"
BadFirstByte == <<58, 49, CR, LF>>
BadBulkLength == <<Dollar, Minus, 50, CR, LF>>
BadArrayLength == <<Star, Minus, 49, CR, LF>>

BadFrames == {BadFirstByte, BadBulkLength, BadArrayLength}

\* values that are no Array of BulkString
ShapeSimple == SimpleString(PING)
ShapeNull == Array(<<BulkString(GET), NullBulkString>>)
ShapeNested == Array(<<Array(<<BulkString(PING)>>)>>)

BadShapes == {ShapeSimple, ShapeNull, ShapeNested}

\* "foo"; "config", "set", "dir"; "config", "get", "dir"
ReqUnknown == Array(<<BulkString(<<102, 111, 111>>)>>)
ReqConfigSet ==
    Array(<<BulkString(<<99, 111, 110, 102, 105, 103>>), BulkString(<<115, 101, 116>>),
            BulkString(Dir)>>)
ReqConfigGet ==
    Array(<<BulkString(<<99, 111, 110, 102, 105, 103>>), BulkString(<<103, 101, 116>>),
            BulkString(Dir)>>)

\* SET k v XX
ReqSetXX == Array(<<BulkString(SET), KeyK, ValV, BulkString(<<88, 88>>)>>)

\* PSYNC ? -1
ReqPsync == Array(<<BulkString(PSYNC), BulkString(<<63>>), BulkString(<<Minus, 49>>)>>)

ReqInfo == Array(<<BulkString(INFO)>>)

CmdRequests ==
    BadShapes \cup {ReqUnknown, ReqConfigSet, ReqConfigGet, ReqSetXX, ReqPsync, ReqInfo,
                    ReqSetV, ReqGet}

\* the peer sends bytes that are not the serialization of a value
ClientSendRaw(c, bytes) ==
    /\ pc[c] # "closed"
    /\ Unanswered(c) < 1
    /\ sock_in' = [sock_in EXCEPT ![c] = @ \o bytes]
    /\ pending' = [pending EXCEPT ![c] = Append(@, Raw(bytes))]
    /\ out' = [out EXCEPT ![c] = <<>>]
    /\ UNCHANGED <<keyspace, locks, now, task, history, codec, config, replica>>

InitCmd ==
    /\ now = StartNow
    /\ main_store = EmptyMap /\ expire_store = EmptyMap
    /\ ttl_seen = {} /\ last_set = EmptyMap
    /\ main_lock = Free /\ expire_lock = Free
    /\ pc = [c \in Conns |-> "read"]
    /\ buffer = [c \in Conns |-> <<>>]
    /\ cmd = [c \in Conns |-> ""]
    /\ args = [c \in Conns |-> <<>>]
    /\ res = [c \in Conns |-> NoValue]
    /\ sock_in = [c \in Conns |-> <<>>]
    /\ out = [c \in Conns |-> <<>>]
    /\ pending = [c \in Conns |-> <<>>]
    /\ owed = [c \in Conns |-> NoValue]
    /\ why = [c \in Conns |-> ""]
    /\ CodecOff
    /\ config \in {NoValue, SomeConfig}
    /\ ReplicaOff

NextCmd ==
    \E c \in Conns :
        \/ \E r \in CmdRequests : ClientSend(c, r, 1)
        \/ \E bytes \in BadFrames : ClientSendRaw(c, bytes)
        \/ \E n \in 1..Len(sock_in[c]) : ReadBytes(c, n)
        \/ ReadEof(c)
        \/ SocketError(c)
        \/ LockMain(c)
        \/ SetExpire(c)
        \/ SetMain(c)
        \/ GetLookup(c)
        \/ Write(c)
        \/ PsyncWrite(c)
        \/ PsyncFile(c)
        \/ PsyncLen(c)
        \/ PsyncRdb(c)
        \/ PsyncSocketError(c)

SpecCmd == InitCmd /\ [][NextCmd]_vars

(***************************************************************************)
(* Properties of the error paths.                                          *)
(***************************************************************************)
\* the task of c has ended without a command, a reply or a lock, and the
\* keyspace and the other connections are as they were
ClosedAlone(c) ==
    /\ pc'[c] = "closed"
    /\ owed'[c] = NoValue /\ cmd'[c] = "" /\ res'[c] = NoValue
    /\ out'[c] = <<>>
    /\ main_store' = main_store /\ expire_store' = expire_store
    /\ main_lock' # c /\ expire_lock' # c
    /\ \A d \in Conns \ {c} :
          /\ pc'[d] = pc[d] /\ buffer'[d] = buffer[d]
          /\ cmd'[d] = cmd[d] /\ args'[d] = args[d] /\ res'[d] = res[d]
          /\ sock_in'[d] = sock_in[d] /\ out'[d] = out[d]
          /\ main_lock = d => main_lock' = d
          /\ expire_lock = d => expire_lock' = d

\* C11: a read that completes a frame with a bad first byte, a bulk string
\* length below -1 or a negative array length ends the task of that
\* connection: no command is dispatched, the keyspace is unchanged, no lock
\* is kept, and the other connections are untouched.
C11_FramingErrorClosesOne ==
    [][\A c \in Conns : \A n \in 1..Len(sock_in[c]) :
          (/\ pc[c] = "read"
           /\ (buffer[c] \o SubSeq(sock_in[c], 1, n)) \in BadFrames
           /\ ReadBytes(c, n))
              => ClosedAlone(c)]_vars

\* c1 sent a frame that does not tokenize and is closed; c2 is being served
C11_Witness ==
    /\ why["c1"] = "framing" /\ pc["c1"] = "closed"
    /\ pc["c2"] = "write" /\ cmd["c2"] = "GET"
    /\ main_lock = "c2"

\* C12: a read that completes the frame of a value that is no Array of
\* BulkString ends the task of that connection: no command is dispatched,
\* no reply is written and the keyspace is unchanged.
C12_BadShapeClosesOne ==
    [][\A c \in Conns : \A n \in 1..Len(sock_in[c]) :
          (/\ pc[c] = "read"
           /\ \E v \in BadShapes : buffer[c] \o SubSeq(sock_in[c], 1, n) = serialize(v)
           /\ ReadBytes(c, n))
              => ClosedAlone(c)]_vars

\* c1 sent a value of a wrong shape and is closed; c2 has its reply
C12_Witness ==
    /\ why["c1"] = "shape" /\ pc["c1"] = "closed"
    /\ pc["c2"] = "read" /\ out["c2"] = <<SimpleString(OK)>>

\* requests that name an unknown command or an unknown sub command of CONFIG
CommandErrors == {ReqUnknown, ReqConfigSet}

\* C13: a request with an unknown command, or CONFIG with a sub command
\* other than GET, is answered by one SimpleError; the keyspace is unchanged
\* and the connection is open and reads the next request.
C13_CommandErrorInBand ==
    [][\A c \in Conns :
          /\ \A n \in 1..Len(sock_in[c]) :
                (/\ pc[c] = "read"
                 /\ \E r \in CommandErrors :
                       buffer[c] \o SubSeq(sock_in[c], 1, n) = serialize(r)
                 /\ ReadBytes(c, n))
                    => /\ pc'[c] = "write"
                       /\ res'[c].t = "SimpleError"
                       /\ main_store' = main_store /\ expire_store' = expire_store
          /\ (owed[c] \in CommandErrors /\ pc'[c] # pc[c] /\ why'[c] # "io")
                => /\ pc'[c] = "read"
                   /\ out'[c] = <<res[c]>>
                   /\ res[c].t = "SimpleError"
                   /\ buffer'[c] = <<>> /\ owed'[c] = NoValue
                   /\ main_lock' # c /\ expire_lock' # c
                   /\ main_store' = main_store /\ expire_store' = expire_store]_vars

\* CONFIG SET got its error reply, and the connection is open after a SET
\* made earlier
C13_Witness ==
    \E c \in Conns :
        /\ pc[c] = "read"
        /\ out[c] = <<SimpleError(InvalidSubCommand \o SET \o Quote)>>
        /\ KeyK \in DOMAIN main_store

\* the three writes of psync are done
PsyncAnswered(c) ==
    Len(out[c]) = 3 /\ out[c][2].t = "Raw" /\ out[c][3].t = "Raw" /\ pc[c] = "read"

\* C15: the bytes of the answer to PSYNC are "+FULLRESYNC <replid> 0\r\n",
\* then "$<len>\r\n", then the len bytes of the file, and nothing else.
C15_PsyncWireBytes ==
    \A c \in Conns :
        PsyncAnswered(c)
            => wire(out[c]) = FullResync \o Replid \o ZeroCRLF
                                \o <<Dollar>> \o ToDecimal(Len(out[c][3].b)) \o CRLF
                                \o out[c][3].b

\* the third argument of the SET that c runs is not PX
UnknownSetOption(c) ==
    /\ pc[c] = "lock_expire" /\ cmd[c] = "SET"
    /\ Len(args[c]) >= 3
    /\ to_uppercase(args[c][3].b) # PX

\* C20: a SET whose third argument is not PX ends the task of its
\* connection: no reply, no change of main_store or expire_store, both locks
\* free, and the other connections untouched.
C20_UnknownSetOptionIsFatal ==
    [][\A c \in Conns :
          (UnknownSetOption(c) /\ pc'[c] # pc[c])
              => /\ ClosedAlone(c)
                 /\ main_lock' = Free /\ expire_lock' = Free]_vars

\* c1 died in SET k v XX, and c2 took the locks after that
C20_Witness ==
    /\ why["c1"] = "set_option" /\ pc["c1"] = "closed"
    /\ pc["c2"] = "write" /\ main_lock = "c2" /\ expire_lock = "c2"
    /\ KeyK \notin DOMAIN main_store

(***************************************************************************)
(* SET without PX and the deadline of an earlier SET.                      *)
(***************************************************************************)
\* the most recent SET of key had no PX, and expire_store holds a deadline
\* of key that has passed at instant t
StaleDeadline(key, t) ==
    /\ key \in DOMAIN last_set
    /\ last_set[key].due = NoPx
    /\ key \in DOMAIN expire_store
    /\ expire_store[key] < t

\* C19: the two steps of a SET without PX leave expire_store as it was, so
\* that the deadline of an earlier SET with PX stands; a GET of the key
\* after that deadline removes the key and replies NullBulkString.
C19_SetWithoutPxKeepsDeadline ==
    [][\A c \in Conns :
          /\ (/\ pc[c] = "lock_expire" /\ cmd[c] = "SET"
              /\ Len(args[c]) = 2 /\ pc'[c] # pc[c])
                 => pc'[c] = "set_main" /\ expire_store' = expire_store
          /\ (pc[c] = "set_main" /\ Len(args[c]) = 2 /\ pc'[c] # pc[c])
                 => /\ expire_store' = expire_store
                    /\ main_store' = Put(main_store, args[c][1], args[c][2])
          /\ (/\ pc[c] = "lock_expire" /\ cmd[c] = "GET" /\ pc'[c] # pc[c]
              /\ StaleDeadline(args[c][1], now))
                 => /\ args[c][1] \notin DOMAIN main_store'
                    /\ \/ pc'[c] = "get_expire"
                       \/ pc'[c] = "write" /\ res'[c] = NullBulkString]_vars

\* k was set with PX and then without; the GET after the deadline of the
\* first SET is about to reply NullBulkString
C19_Witness ==
    \E c \in Conns :
        /\ pc[c] = "get_expire" /\ cmd[c] = "GET"
        /\ args[c][1] \in ttl_seen
        /\ StaleDeadline(args[c][1], now)
        /\ last_set[args[c][1]].val = ValW

(***************************************************************************)
(* The two locks under a fair scheduler.  The tokio runtime runs every     *)
(* task that is ready, so a step that needs no lock or socket is taken     *)
(* (weak fairness); a write returns when the socket makes progress (weak   *)
(* fairness); tokio's Mutex hands the lock to its waiters in the order     *)
(* they asked, so a task that waits while the lock is released again and   *)
(* again gets it (strong fairness).                                        *)
(***************************************************************************)
LiveRequests == {ReqSetPx, ReqGet, ReqKeys}

InitLive ==
    /\ now = StartNow
    /\ main_store = EmptyMap /\ expire_store = EmptyMap
    /\ ttl_seen = {} /\ last_set = EmptyMap
    /\ main_lock = Free /\ expire_lock = Free
    /\ pc = [c \in Conns |-> "read"]
    /\ buffer = [c \in Conns |-> <<>>]
    /\ cmd = [c \in Conns |-> ""]
    /\ args = [c \in Conns |-> <<>>]
    /\ res = [c \in Conns |-> NoValue]
    /\ sock_in = [c \in Conns |-> <<>>]
    /\ out = [c \in Conns |-> <<>>]
    /\ pending = [c \in Conns |-> <<>>]
    /\ owed = [c \in Conns |-> NoValue]
    /\ why = [c \in Conns |-> ""]
    /\ CodecOff
    /\ config = NoValue
    /\ ReplicaOff

\* the steps of a command that holds main_store's guard
Critical(c) ==
    SetExpire(c) \/ SetMain(c) \/ GetLookup(c) \/ GetExpire(c) \/ KeysScan(c)

NextLive ==
    \/ Tick
    \/ \E c \in Conns :
          \/ \E r \in LiveRequests : ClientSend(c, r, 1)
          \/ \E n \in 1..Len(sock_in[c]) : ReadBytes(c, n)
          \/ LockMain(c)
          \/ Critical(c)
          \/ Write(c)

FairLive ==
    \A c \in Conns :
        /\ WF_vars(Critical(c))
        /\ WF_vars(Write(c))
        /\ SF_vars(LockMain(c))

SpecLive == InitLive /\ [][NextLive]_vars /\ FairLive

\* the task of c waits for a lock that the task of d holds
WaitsFor(c, d) ==
    /\ c # d
    /\ \/ pc[c] = "lock_main" /\ main_lock = d
       \/ pc[c] = "lock_expire" /\ expire_lock = d

\* C18: the lock of expire_store is held only by the holder of the lock of
\* main_store, no two tasks wait for a lock of each other, and a task that
\* asks for the locks comes to hold both.
C18_LocksAreGranted ==
    /\ [](expire_lock # Free => main_lock = expire_lock)
    /\ [](\A c, d \in Conns : ~(WaitsFor(c, d) /\ WaitsFor(d, c)))
    /\ \A c \in Conns :
          (pc[c] = "lock_main") ~> (main_lock = c /\ expire_lock = c)

\* c1 waits for the lock of main_store while c2, in a GET that found the
\* value, holds both locks
C18_Witness ==
    /\ pc["c1"] = "lock_main"
    /\ main_lock = "c2" /\ expire_lock = "c2"
    /\ KeyK \in DOMAIN main_store
    /\ cmd["c2"] = "GET" /\ res["c2"] = ValV

(***************************************************************************)
(* repl/replica.rs: RedisReplicaContext::connect against a master that may *)
(* send anything and close at any time.  Each request of connect is taken  *)
(* as written when connect waits for its answer.                           *)
(***************************************************************************)
\* read_rdb_file after a read of at least one byte, buf being the buffer
read_rdb_file(buf) ==
    IF At(buf, 0) # Dollar THEN [kind |-> "err"]
    ELSE LET word == get_next_word(buf, 1)
         IN  IF ~word.found THEN [kind |-> "panic"]
             ELSE LET file_size == ParseU64(Slice(buf, word.tok.from, word.tok.to))
                  IN  IF ~file_size.ok THEN [kind |-> "err"]
                      ELSE IF Len(buf) - word.next # file_size.v THEN [kind |-> "err"]
                      ELSE IF file_size.v = 0 THEN [kind |-> "panic"]
                      ELSE [kind |-> "ok",
                            data |-> Slice(buf, word.next, word.next + file_size.v - 1)]

\* what a master may write
PongLine == serialize(SimpleString(PONG))
OkLine == serialize(SimpleString(OK))
RdbPayload == <<Dollar, Zero + 6>> \o CRLF \o <<82, 69, OpFB, 0, 0, OpFF>>
RdbPart == <<Dollar, Zero + 6>> \o CRLF \o <<82, 69>>
ErrLine == serialize(SimpleError(<<69, 82, 82>>))
MasterWrites == {PongLine, OkLine, psync_line, RdbPayload, RdbPart, ErrLine}

MaxMasterWrites == 5

\* the step after the step at, and the reply that the step at wants
step_after(at) ==
    IF at = "Ping" THEN "ReplconfPort"
    ELSE IF at = "ReplconfPort" THEN "ReplconfCapa"
    ELSE IF at = "ReplconfCapa" THEN "Psync"
    ELSE "ReceivingRdb"

expected_reply(at) == IF at = "Ping" THEN SimpleString(PONG) ELSE SimpleString(OK)

\* where connect goes from the step at when read_and_parse gives parsed
connect_after(at, parsed) ==
    IF parsed.kind = "panic" THEN "Failed"
    ELSE IF at = "Psync" THEN "ReceivingRdb"
    ELSE IF parsed.kind = "some" /\ parsed.value = expected_reply(at) THEN step_after(at)
    ELSE "Failed"

\* connect is over: its handler and its socket are dropped; what the master
\* sent is kept for a connect that returned Ok
ReplicaDone(to) ==
    /\ rPc' = to
    /\ rBuffer' = <<>>
    /\ rIn' = <<>>
    /\ rEof' = FALSE
    /\ mSent' = IF to = "Ready" THEN mSent ELSE <<>>

InitReplica ==
    /\ now = StartNow
    /\ main_store = EmptyMap /\ expire_store = EmptyMap
    /\ ttl_seen = {} /\ last_set = EmptyMap
    /\ main_lock = Free /\ expire_lock = Free
    /\ pc = [c \in Conns |-> "closed"]
    /\ buffer = [c \in Conns |-> <<>>]
    /\ cmd = [c \in Conns |-> ""]
    /\ args = [c \in Conns |-> <<>>]
    /\ res = [c \in Conns |-> NoValue]
    /\ sock_in = [c \in Conns |-> <<>>]
    /\ out = [c \in Conns |-> <<>>]
    /\ pending = [c \in Conns |-> <<>>]
    /\ owed = [c \in Conns |-> NoValue]
    /\ why = [c \in Conns |-> ""]
    /\ CodecOff
    /\ config = NoValue
    /\ rPc = "Ping" /\ rBuffer = <<>> /\ rIn = <<>> /\ rEof = FALSE /\ mSent = <<>>

Waiting == rPc \in {"Ping", "ReplconfPort", "ReplconfCapa", "Psync", "ReceivingRdb"}

\* the master writes, connect having read what it wrote before
MasterSend(bytes) ==
    /\ Waiting /\ ~rEof
    /\ rIn = <<>>
    /\ Len(mSent) < MaxMasterWrites
    /\ rIn' = rIn \o bytes
    /\ mSent' = Append(mSent, bytes)
    /\ UNCHANGED <<keyspace, locks, now, task, peer, history, codec, config,
                   rPc, rBuffer, rEof>>

\* the master closes the connection
MasterClose ==
    /\ Waiting /\ ~rEof
    /\ rEof' = TRUE
    /\ UNCHANGED <<keyspace, locks, now, task, peer, history, codec, config,
                   rPc, rBuffer, rIn, mSent>>

\* read_and_parse of one of the four handshake steps, read_buf returning n
\* bytes
ReplicaRead(n) ==
    LET buf == rBuffer \o SubSeq(rIn, 1, n)
        to == connect_after(rPc, parse_buffer(buf))
    IN  /\ rPc \in {"Ping", "ReplconfPort", "ReplconfCapa", "Psync"}
        /\ n \in 1..Len(rIn)
        /\ IF to = "Failed" THEN ReplicaDone("Failed")
           ELSE /\ rPc' = to
                /\ rBuffer' = parse_buffer(buf).rest
                /\ rIn' = SubSeq(rIn, n + 1, Len(rIn))
                /\ UNCHANGED <<rEof, mSent>>
        /\ UNCHANGED <<keyspace, locks, now, task, peer, history, codec, config>>

\* read_and_parse when read_buf returns 0: Ok(None)
ReplicaReadEof ==
    /\ rPc \in {"Ping", "ReplconfPort", "ReplconfCapa", "Psync"}
    /\ rIn = <<>> /\ rEof
    /\ IF connect_after(rPc, ParseNone(rBuffer)) = "Failed" THEN ReplicaDone("Failed")
       ELSE /\ rPc' = connect_after(rPc, ParseNone(rBuffer))
            /\ UNCHANGED <<rBuffer, rIn, rEof, mSent>>
    /\ UNCHANGED <<keyspace, locks, now, task, peer, history, codec, config>>

\* read_rdb_file, read_buf returning n bytes
ReplicaReadRdb(n) ==
    /\ rPc = "ReceivingRdb"
    /\ n \in 1..Len(rIn)
    /\ ReplicaDone(IF read_rdb_file(rBuffer \o SubSeq(rIn, 1, n)).kind = "ok"
                   THEN "Ready" ELSE "Failed")
    /\ UNCHANGED <<keyspace, locks, now, task, peer, history, codec, config>>

\* read_rdb_file when read_buf returns 0: Ok(vec![])
ReplicaRdbEof ==
    /\ rPc = "ReceivingRdb"
    /\ rIn = <<>> /\ rEof
    /\ ReplicaDone("Ready")
    /\ UNCHANGED <<keyspace, locks, now, task, peer, history, codec, config>>

\* a write or a read of connect fails
ReplicaIoError ==
    /\ Waiting
    /\ ReplicaDone("Failed")
    /\ UNCHANGED <<keyspace, locks, now, task, peer, history, codec, config>>

NextReplica ==
    \/ \E bytes \in MasterWrites : MasterSend(bytes)
    \/ MasterClose
    \/ \E n \in 1..Len(rIn) : ReplicaRead(n)
    \/ ReplicaReadEof
    \/ \E n \in 1..Len(rIn) : ReplicaReadRdb(n)
    \/ ReplicaRdbEof
    \/ ReplicaIoError

SpecReplica == InitReplica /\ [][NextReplica]_vars

\* all the bytes of the writes
RECURSIVE Flatten(_)
Flatten(writes) == IF writes = <<>> THEN <<>> ELSE Head(writes) \o Flatten(Tail(writes))

\* bytes is "$<n>\r\n" and n bytes
CompleteRdb(bytes) ==
    /\ bytes # <<>> /\ bytes[1] = Dollar
    /\ get_next_word(bytes, 1).found
    /\ LET word == get_next_word(bytes, 1)
           n == ParseU64(Slice(bytes, word.tok.from, word.tok.to))
       IN  n.ok /\ Len(bytes) - word.next = n.v

\* sent is +PONG, +OK, +OK, one complete reply and a complete RDB payload
CompleteHandshake(sent) ==
    LET head == PongLine \o OkLine \o OkLine
        tail == SubSeq(sent, Len(head) + 1, Len(sent))
        reply == tokenize(tail, 0)
    IN  /\ Len(sent) >= Len(head)
        /\ SubSeq(sent, 1, Len(head)) = head
        /\ reply.kind = "some" /\ reply.next <= Len(tail)
        /\ CompleteRdb(SubSeq(tail, reply.next + 1, Len(tail)))

\* C14: connect reaches Ready only when the master has answered +PONG, +OK,
\* +OK, a reply to PSYNC and a complete RDB payload.
C14_ReadyNeedsWholeHandshake ==
    rPc = "Ready" => CompleteHandshake(Flatten(mSent))

(***************************************************************************)
(* RedisServer::from_rdbfile on its own: snapshots written from lists of   *)
(* entries, whole or damaged, and loaded at the instant now.               *)
(***************************************************************************)
MaxEntries == 2
MaxDue == 2

\* an entry of a snapshot: key, value, and its deadline or NoValue
Deadline(ms) == [t |-> "Deadline", ms |-> ms]

RdbEntry(key, val, due) == [key |-> key, val |-> val, due |-> due]

RdbEntries ==
    {RdbEntry(key, val, due) :
        key \in {KeyK, KeyJ}, val \in {ValV, ValW},
        due \in {NoValue} \cup {Deadline(ms) : ms \in 0..MaxDue}}

RdbInputs == UNION {[1..n -> RdbEntries] : n \in 0..MaxEntries}

\* the n bytes of v, least significant first
RECURSIVE LeBytes(_, _)
LeBytes(v, n) == IF n = 0 THEN <<>> ELSE <<v % 256>> \o LeBytes(v \div 256, n - 1)

\* a string with its length in one byte
rdb_string(str) == <<Len(str)>> \o str

\* 0xFC and the deadline if there is one, the value type 0, key and value
rdb_entry(e) ==
    (IF e.due = NoValue THEN <<>> ELSE <<OpFC>> \o LeBytes(e.due.ms, 8))
        \o <<0>> \o rdb_string(e.key.b) \o rdb_string(e.val.b)

RECURSIVE rdb_body(_)
rdb_body(entries) ==
    IF entries = <<>> THEN <<>> ELSE rdb_entry(Head(entries)) \o rdb_body(Tail(entries))

\* "RE", 0xFB, the two sizes, the entries, 0xFF
rdb_file(entries) ==
    <<82, 69, OpFB, Len(entries),
      Cardinality({i \in 1..Len(entries) : entries[i].due # NoValue})>>
        \o rdb_body(entries) \o <<OpFF>>

\* an entry whose value type is not 0
BadTypeEntry == <<1>> \o rdb_string(KeyK.b) \o rdb_string(ValV.b)

InitRdb ==
    /\ ServerOff
    /\ cV \in RdbInputs
    /\ cBuf = <<>> /\ cRes = NoValue /\ cPhase = "entries"

RdbWrite ==
    /\ cPhase = "entries"
    /\ cBuf' = rdb_file(cV)
    /\ cPhase' = "whole"
    /\ UNCHANGED <<cV, cRes, server>>

\* the file ends after n bytes
RdbCut(n) ==
    /\ cPhase = "whole"
    /\ n \in 0..(Len(cBuf) - 1)
    /\ cBuf' = SubSeq(cBuf, 1, n)
    /\ cPhase' = "damaged"
    /\ UNCHANGED <<cV, cRes, server>>

\* an entry of another value type stands before the end marker
RdbBadType ==
    /\ cPhase = "whole"
    /\ cBuf' = SubSeq(cBuf, 1, Len(cBuf) - 1) \o BadTypeEntry \o <<OpFF>>
    /\ cPhase' = "damaged"
    /\ UNCHANGED <<cV, cRes, server>>

RdbLoad ==
    /\ cPhase \in {"whole", "damaged"}
    /\ cRes' = from_rdbfile(cBuf, now)
    /\ cPhase' = IF cPhase = "whole" THEN "loaded" ELSE "loaded_damaged"
    /\ UNCHANGED <<cV, cBuf, server>>

NextRdb ==
    \/ RdbWrite
    \/ \E n \in 0..(Len(cBuf) - 1) : RdbCut(n)
    \/ RdbBadType
    \/ RdbLoad

SpecRdb == InitRdb /\ [][NextRdb]_vars

Last(S) == CHOOSE x \in S : \A y \in S : y <= x

\* key |-> the value of the last entry of entries among those at I
MainOf(entries, I) ==
    [key \in {entries[i].key : i \in I} |->
        entries[Last({i \in I : entries[i].key = key})].val]

\* key |-> the deadline of the last entry with a deadline among those at I
ExpireOf(entries, I) ==
    [key \in {entries[i].key : i \in {j \in I : entries[j].due # NoValue}} |->
        entries[Last({i \in I : entries[i].key = key /\ entries[i].due # NoValue})].due.ms]

\* the entries without deadline and those whose deadline is not before t
NotBefore(entries, t) ==
    {i \in 1..Len(entries) : entries[i].due = NoValue \/ entries[i].due.ms >= t}

\* the entries without deadline and those whose deadline is after t
After(entries, t) ==
    {i \in 1..Len(entries) : entries[i].due = NoValue \/ entries[i].due.ms > t}

C17_DamagedSnapshotLoadsEmpty ==
    cPhase = "loaded_damaged" =>
        /\ cRes.kind = "ok"
        /\ cRes.main = EmptyMap /\ cRes.expire = EmptyMap

(***************************************************************************)
(* Lazy removal.                                                           *)
(***************************************************************************)
\* the elements of a sequence
Listed(seq) == {seq[i] : i \in 1..Len(seq)}

\* C21: when GET has found its key expired, and when KEYS has skipped an
\* expired key, that key is in neither main_store nor expire_store.  The
\* command still holds both locks when its reply is ready, so the keys of
\* main_store that the reply of KEYS does not list are the skipped ones.
C21_ObservedExpiredKeyIsRemoved ==
    \A c \in Conns :
        /\ (pc[c] = "write" /\ cmd[c] = "GET" /\ res[c] = NullBulkString)
              => /\ args[c][1] \notin DOMAIN main_store
                 /\ args[c][1] \notin DOMAIN expire_store
        /\ (pc[c] = "write" /\ cmd[c] = "KEYS")
              => \A key \in (DOMAIN main_store \cup DOMAIN expire_store) :
                    key \in Listed(res[c].a)

(***************************************************************************)
(* What a successful parse takes from the buffer.                          *)
(***************************************************************************)
\* the bytes c had before a step: its buffer and what the step read
Held(c) ==
    buffer[c] \o SubSeq(sock_in[c], 1, Len(sock_in[c]) - Len(sock_in'[c]))

\* C22: a step that parses a complete frame takes exactly the bytes of that
\* frame from the front of the buffer and keeps the later bytes as they are;
\* on an open connection the buffer and the bytes not yet read are the
\* frames of the requests not yet parsed.
C22_ParseTakesOneFrame ==
    /\ [](\A c \in Conns :
             pc[c] # "closed" => buffer[c] \o sock_in[c] = serialize_all(pending[c]))
    /\ [][\A c \in Conns :
             (owed'[c] # owed[c] /\ owed'[c] # NoValue)
                => /\ SubSeq(Held(c), 1, Len(serialize(owed'[c]))) = serialize(owed'[c])
                   /\ buffer'[c] = SubSeq(Held(c), Len(serialize(owed'[c])) + 1,
                                          Len(Held(c)))]_vars

\* SET k v is dispatched while the first bytes of the next frame, read with
\* it, wait in the buffer
C22_Witness ==
    /\ owed[PipeConn] = ReqSetV
    /\ pending[PipeConn] = <<ReqGet>>
    /\ buffer[PipeConn] # <<>>
    /\ buffer[PipeConn] \o sock_in[PipeConn] = serialize(ReqGet)

(***************************************************************************)
(* handler.rs write on its own, on a socket that may accept only a part of *)
(* what one call of stream.write offers.  cV is the value, cBuf the bytes  *)
(* the socket has taken, cRes what write returns.                          *)
(***************************************************************************)
InitWrite ==
    /\ ServerOff
    /\ cV \in CodecValues
    /\ cBuf = <<>> /\ cRes = NoValue /\ cPhase = "value"

\* lines 113-116: one call of stream.write, which takes n of the bytes and
\* returns n; write returns Ok(n)
WriteAccepts(n) ==
    /\ cPhase = "value"
    /\ n \in 1..Len(serialize(cV))
    /\ cBuf' = SubSeq(serialize(cV), 1, n)
    /\ cRes' = [kind |-> "ok", bytes |-> n]
    /\ cPhase' = "returned"
    /\ UNCHANGED <<cV, server>>

\* line 114: stream.write fails and `?` returns the error
WriteFails ==
    /\ cPhase = "value"
    /\ cRes' = [kind |-> "err"]
    /\ cPhase' = "failed"
    /\ UNCHANGED <<cV, cBuf, server>>

NextWrite ==
    \/ \E n \in 1..Len(serialize(cV)) : WriteAccepts(n)
    \/ WriteFails

SpecWrite == InitWrite /\ [][NextWrite]_vars

\* C23: when write has returned Ok, every byte of serialize(value) is on the
\* socket.
C23_WriteIsComplete ==
    cPhase = "returned" => cBuf = serialize(cV)

(***************************************************************************)
(* handler.rs read_rdb_file on its own: the peer has sent "$<n>\r\n" and n *)
(* bytes.  cV is the payload, cBuf what read_buf has put into the empty    *)
(* buffer, cRes what read_rdb_file returns.                                *)
(***************************************************************************)
MaxPayload == 4

Payloads ==
    UNION {[1..n -> {82, CR, LF}] : n \in 0..MaxPayload}

\* what the peer sends for a payload
rdb_transfer(payload) == <<Dollar>> \o ToDecimal(Len(payload)) \o CRLF \o payload

InitPayload ==
    /\ ServerOff
    /\ cV \in Payloads
    /\ cBuf = <<>> /\ cRes = NoValue /\ cPhase = "payload"

\* read_buf returns all the bytes sent, or only the first n of them
PayloadArrives(n) ==
    /\ cPhase = "payload"
    /\ n \in 1..Len(rdb_transfer(cV))
    /\ cBuf' = SubSeq(rdb_transfer(cV), 1, n)
    /\ cPhase' = IF n = Len(rdb_transfer(cV)) THEN "arrived" ELSE "arrived_part"
    /\ UNCHANGED <<cV, cRes, server>>

\* lines 72-93 of read_rdb_file
PayloadRead ==
    /\ cPhase \in {"arrived", "arrived_part"}
    /\ cRes' = read_rdb_file(cBuf)
    /\ cPhase' = IF cPhase = "arrived" THEN "read" ELSE "read_part"
    /\ UNCHANGED <<cV, cBuf, server>>

NextPayload ==
    \/ \E n \in 1..Len(rdb_transfer(cV)) : PayloadArrives(n)
    \/ PayloadRead

SpecPayload == InitPayload /\ [][NextPayload]_vars

\* C24: read_rdb_file, given "$<n>\r\n" and the n bytes of the payload,
\* returns the payload.
C24_ReadRdbReturnsPayload ==
    cPhase = "read" => cRes.kind = "ok" /\ cRes.data = cV

(***************************************************************************)
(* server.rs parse_length_encoding on its own.  cV is the encoding byte    *)
(* and the bytes after it, cBuf the buffer that holds them at some         *)
(* position, cRes what parse_length_encoding returns there.                *)
(***************************************************************************)
MaxAfter == 5
MaxBefore == 1

\* encoding bytes of the four kinds: the least and the greatest of each, and
\* one between
EncodingBytes == {0, 5, 63, 64, 100, 127, 128, 130, 191, 192, 200, 255}

Encodings ==
    {<<b>> \o after : b \in EncodingBytes, after \in SeqsUpTo({0, 1, 127}, MaxAfter)}

InitLength ==
    /\ ServerOff
    /\ cV \in Encodings
    /\ cBuf = <<>> /\ cRes = NoValue /\ cPhase = "encoding"

\* the encoding stands after n other bytes
LengthAt(n) ==
    /\ cPhase = "encoding"
    /\ n \in 0..MaxBefore
    /\ cBuf' = [i \in 1..n |-> OpFB] \o cV
    /\ cPhase' = "placed"
    /\ UNCHANGED <<cV, cRes, server>>

LengthDecode ==
    /\ cPhase = "placed"
    /\ cRes' = parse_length_encoding(cBuf, Len(cBuf) - Len(cV))
    /\ cPhase' = "decoded"
    /\ UNCHANGED <<cV, cBuf, server>>

NextLength ==
    \/ \E n \in 0..MaxBefore : LengthAt(n)
    \/ LengthDecode

SpecLength == InitLength /\ [][NextLength]_vars

\* four bytes as a little-endian unsigned 32-bit integer
Le32(b) == b[1] + 256 * b[2] + 65536 * b[3] + 16777216 * b[4]

\* C25: by the top two bits of the encoding byte B, 00 gives the low 6 bits
\* of B and the position after B, 10 gives the next 4 bytes as a
\* little-endian integer and the position 5 further, 01 and 11 fail.
C25_LengthDecoding ==
    cPhase = "decoded" =>
        LET pos == Len(cBuf) - Len(cV)
            B == cV[1]
        IN  /\ B \div 64 = 0
                => cRes = [kind |-> "ok", v |-> B % 64, next |-> pos + 1]
            /\ (B \div 64 = 2 /\ Len(cV) >= 5)
                => cRes = [kind |-> "ok", v |-> Le32(SubSeq(cV, 2, 5)), next |-> pos + 5]
            /\ B \div 64 \in {1, 3} => cRes.kind # "ok"

(***************************************************************************)
(* A replica of this program against a master of this program: connect of  *)
(* the replica, and on the master the task of the connection SyncConn.     *)
(* Delivery is reliable and in order: what the master has written arrives  *)
(* whole, write after write.  The replica reads the replies to its first   *)
(* three requests whole and what follows PSYNC in parts of any size.  The  *)
(* master reads each request whole.                                        *)
(***************************************************************************)
SyncConn == "c1"

ListeningPort == <<108, 105, 115, 116, 101, 110, 105, 110, 103, 45, 112, 111, 114, 116>>
Capa == <<99, 97, 112, 97>>
Psync2 == <<112, 115, 121, 110, 99, 50>>

\* the request connect writes before it waits at the step at; the port is 6380
request_of(at) ==
    IF at = "Ping" THEN Array(<<BulkString(PING)>>)
    ELSE IF at = "ReplconfPort"
    THEN Array(<<BulkString(REPLCONF), BulkString(ListeningPort),
                 BulkString(<<54, 51, 56, 48>>)>>)
    ELSE IF at = "ReplconfCapa"
    THEN Array(<<BulkString(REPLCONF), BulkString(Capa), BulkString(Psync2)>>)
    ELSE Array(<<BulkString(PSYNC), BulkString(<<63>>), BulkString(<<Minus, 49>>)>>)

\* the requests that the writes of the master, all arrived, have answered:
\* one write for each of the first three, three writes for PSYNC
answered(writes) ==
    IF Len(writes) <= 3 THEN Len(writes) ELSE IF Len(writes) < 6 THEN 3 ELSE 4

\* the requests connect has written when it waits at the step at
written_at(at) ==
    IF at = "Ping" THEN 1
    ELSE IF at = "ReplconfPort" THEN 2
    ELSE IF at = "ReplconfCapa" THEN 3
    ELSE 4

InitSync ==
    /\ now = StartNow
    /\ main_store = EmptyMap /\ expire_store = EmptyMap
    /\ ttl_seen = {} /\ last_set = EmptyMap
    /\ main_lock = Free /\ expire_lock = Free
    /\ pc = [c \in Conns |-> IF c = SyncConn THEN "read" ELSE "closed"]
    /\ buffer = [c \in Conns |-> <<>>]
    /\ cmd = [c \in Conns |-> ""]
    /\ args = [c \in Conns |-> <<>>]
    /\ res = [c \in Conns |-> NoValue]
    /\ sock_in = [c \in Conns |-> <<>>]
    /\ out = [c \in Conns |-> <<>>]
    /\ pending = [c \in Conns |-> <<>>]
    /\ owed = [c \in Conns |-> NoValue]
    /\ why = [c \in Conns |-> ""]
    /\ CodecOff
    /\ config = NoValue
    /\ rPc = "Ping" /\ rBuffer = <<>> /\ rIn = <<>> /\ rEof = FALSE /\ mSent = <<>>

\* handler.write of the request of the step connect is at
SyncSend ==
    /\ rPc \in {"Ping", "ReplconfPort", "ReplconfCapa", "Psync"}
    /\ out[SyncConn] = <<>>
    /\ answered(mSent) + 1 = written_at(rPc)
    /\ ClientSend(SyncConn, request_of(rPc), 1)

\* a write of the master arrives at the replica; nobody takes it when
\* connect is over
SyncDeliver ==
    /\ out[SyncConn] # <<>>
    /\ out' = [out EXCEPT ![SyncConn] = Tail(@)]
    /\ IF Waiting
       THEN /\ rIn' = rIn \o wire(<<Head(out[SyncConn])>>)
            /\ mSent' = Append(mSent, wire(<<Head(out[SyncConn])>>))
       ELSE UNCHANGED <<rIn, mSent>>
    /\ UNCHANGED <<keyspace, locks, now, task, sock_in, pending, history, codec, config,
                   rPc, rBuffer, rEof>>

\* the task of the master has ended and its socket is closed
SyncEof ==
    /\ pc[SyncConn] = "closed" /\ out[SyncConn] = <<>>
    /\ Waiting /\ ~rEof
    /\ rEof' = TRUE
    /\ UNCHANGED <<keyspace, locks, now, task, peer, history, codec, config,
                   rPc, rBuffer, rIn, mSent>>

\* a step of the master's task, what it wrote before having arrived
SyncMaster ==
    /\ out[SyncConn] = <<>>
    /\ \/ sock_in[SyncConn] # <<>> /\ ReadBytes(SyncConn, Len(sock_in[SyncConn]))
       \/ Write(SyncConn)
       \/ PsyncWrite(SyncConn)
       \/ PsyncFile(SyncConn)
       \/ PsyncLen(SyncConn)
       \/ PsyncRdb(SyncConn)

\* read_and_parse of connect
SyncRead ==
    \E n \in 1..Len(rIn) :
        /\ rPc # "Psync" => n = Len(rIn)
        /\ ReplicaRead(n)

NextSync ==
    \/ SyncSend
    \/ SyncDeliver
    \/ SyncEof
    \/ SyncMaster
    \/ SyncRead
    \/ \E n \in 1..Len(rIn) : ReplicaReadRdb(n)
    \/ ReplicaRdbEof

SpecSync == InitSync /\ [][NextSync]_vars

\* C26: connect of a replica of this program against a master of this
\* program never returns an error and never panics, however the answer of
\* the master to PSYNC is split over the reads of the replica.
C26_ReplicaNeverAborts == rPc # "Failed"

(***************************************************************************)
(* Frames that wait in the buffer.                                         *)
(***************************************************************************)
\* C27: a task that waits in read_and_parse for bytes of a peer that has
\* none under way holds no complete frame in its buffer: every frame that
\* has arrived was dispatched without further bytes of the peer, also a
\* second frame that arrived in the same read as the first.
C27_BufferedFrameIsServed ==
    \A c \in Conns :
        (pc[c] = "read" /\ sock_in[c] = <<>>) => parse_buffer(buffer[c]).kind # "some"

(***************************************************************************)
(* One connection whose peer sends every command of the server, one at a   *)
(* time, over a keyspace loaded from a snapshot, while the clock advances. *)
(***************************************************************************)
EveryConn == "c1"

ReqEcho == Array(<<BulkString(ECHO), ValV>>)

EveryRequests ==
    {ReqPing, ReqEcho, ReqInfo, ReqConfigGet, request_of("ReplconfCapa"), ReqPsync,
     ReqUnknown, ReqGet, ReqSetPx, ReqKeys}

NextEvery ==
    \/ Tick
    \/ \E r \in EveryRequests : ClientSend(EveryConn, r, 1)
    \/ \E n \in 1..Len(sock_in[EveryConn]) : ReadBytes(EveryConn, n)
    \/ ReadEof(EveryConn)
    \/ SocketError(EveryConn)
    \/ LockMain(EveryConn)
    \/ SetExpire(EveryConn)
    \/ SetMain(EveryConn)
    \/ GetLookup(EveryConn)
    \/ GetExpire(EveryConn)
    \/ KeysScan(EveryConn)
    \/ Write(EveryConn)
    \/ PsyncWrite(EveryConn)
    \/ PsyncFile(EveryConn)
    \/ PsyncLen(EveryConn)
    \/ PsyncRdb(EveryConn)
    \/ PsyncSocketError(EveryConn)

SpecEvery == Init /\ [][NextEvery]_vars

\* C28: a step that changes main_store or expire_store is a step of a task
\* that executes SET, or that executes GET on a key whose deadline in
\* expire_store is before now.  So PING, ECHO, INFO, CONFIG, REPLCONF, PSYNC,
\* KEYS, an unknown command, reading a request, and GET of a key that is
\* absent or not expired leave both maps as they were.
C28_OnlySetAndExpiredGetChangeKeyspace ==
    [][\/ (main_store' = main_store /\ expire_store' = expire_store)
       \/ \E c \in Conns :
             /\ pc'[c] # pc[c]
             /\ \/ cmd[c] = "SET"
                \/ /\ cmd[c] = "GET"
                   /\ args[c][1] \in DOMAIN expire_store
                   /\ expire_store[args[c][1]] < now]_vars

\* GET has found a key that has a deadline not before now, and has left it
\* in both maps
C28_Witness ==
    \E c \in Conns :
        /\ pc[c] = "write" /\ cmd[c] = "GET"
        /\ res[c] # NullBulkString
        /\ args[c][1] \in DOMAIN main_store
        /\ args[c][1] \in DOMAIN expire_store
        /\ expire_store[args[c][1]] >= now

====
